---- MODULE Spec2Model ----
(***************************************************************************)
(* ChainForge ledger engine: blockchain/models.py (Block, Transaction),    *)
(* blockchain/blockchain.py (Blockchain) and the request handlers of       *)
(* blockchain/views.py that drive it.                                      *)
(*                                                                         *)
(* The database tables are the variables blocks and txs; the class-level   *)
(* fields of Blockchain are DIFFICULTY, TARGET_BLOCK_TIME and              *)
(* ADJUSTMENT_INTERVAL.  Every request is served by a process p; each      *)
(* database statement and each read or write of a class-level field is one *)
(* step of p, so requests served at the same time interleave between       *)
(* statements (the code holds no lock and opens no transaction around      *)
(* mine_pending_transactions).                                             *)
(***************************************************************************)
EXTENDS Integers, Sequences, FiniteSets, TLC

\* ------------------------------------------------------------------ bounds
MaxRequests == 4       \* requests a run of Spec receives
MaxGenesisRequests == 2 \* requests a run of GenesisSpec receives
MaxSeqRequests == 6    \* requests a run of SeqSpec receives
MaxClock == 1          \* last reading of the wall clock
HexBase == 2           \* size of the digest alphabet (16 for a hex digest)
HashLen == 10          \* characters of a digest (64 for SHA-256)
MaxRetargetRequests == 3 \* requests a run of RetargetSpec receives
MaxRetargetClock == 3  \* last reading of the wall clock in a run of RetargetSpec
MaxRetargetBlocks == 4 \* blocks the batch requests of a run may store
BatchTxs == 1          \* transactions batch_mine_blocks generates for a round
MaxBatchRequests == 3  \* requests a run of BatchSpec receives
MaxDifficultyRequests == 4 \* requests a run of DifficultySpec receives
MaxAuditRequests == 5  \* requests and outside writes a run of AuditSpec receives

\* ------------------------------------------------------- program constants
DEFAULT_DIFFICULTY == 4
MINING_REWARD == 10
DEFAULT_TARGET_BLOCK_TIME == 10
DEFAULT_ADJUSTMENT_INTERVAL == 5
MIN_DIFFICULTY == 1
MAX_DIFFICULTY == 10

\* the request processes: two requests may be in progress at the same time
Procs == {1, 2}
NULL == 0
SYSTEM == "SYSTEM"
Names == {"Alice", "Bob"}
Miners == {"Miner1"}
\* submitted transactions: sender, receiver, amount
TxInputs == {<<"Alice", "Bob", 50>>, <<"SYSTEM", "Alice", 20>>}
Amounts == {50}

VARIABLES
  blocks,               \* Block table, rows in insertion (pk) order
  txs,                  \* Transaction table, rows in insertion (pk) order
  DIFFICULTY,           \* Blockchain.DIFFICULTY
  TARGET_BLOCK_TIME,    \* Blockchain.TARGET_BLOCK_TIME
  ADJUSTMENT_INTERVAL,  \* Blockchain.ADJUSTMENT_INTERVAL
  now,                  \* the wall clock read by timezone.now()
  nextBlockPk,          \* next primary key of the Block table
  nextTxPk,             \* next primary key of the Transaction table
  pc,                   \* pc[p]: the statement process p executes next
  loc,                  \* loc[p]: the local variables of p's request
  resp,                 \* the response of the request that ended last
  budget,               \* requests the run may still receive
  history               \* history[pk]: what the block with primary key pk was built from,
                        \* whether a mining round stored it, and the reward that round minted

vars == <<blocks, txs, DIFFICULTY, TARGET_BLOCK_TIME, ADJUSTMENT_INTERVAL, now,
          nextBlockPk, nextTxPk, pc, loc, resp, budget, history>>

\* ------------------------------------------------------------ sequences
RECURSIVE SeqSum(_)
SeqSum(s) == IF s = <<>> THEN 0 ELSE Head(s) + SeqSum(Tail(s))

RECURSIVE PendingFrom(_, _)
\* positions i, i + 1, ... of the rows of table with pending = True, in order
PendingFrom(table, i) ==
  IF i > Len(table) THEN <<>>
  ELSE (IF table[i].pending THEN <<i>> ELSE <<>>) \o PendingFrom(table, i + 1)

Range(s) == {s[i] : i \in 1..Len(s)}

RECURSIVE Pow(_, _)
Pow(b, e) == IF e = 0 THEN 1 ELSE b * Pow(b, e - 1)

\* ------------------------------------------------------- models.Block hash
Modulus == Pow(HexBase, HashLen)

NameNum(s) ==
  CASE s = "Alice" -> 1 [] s = "Bob" -> 2 [] s = "Miner1" -> 3
    [] s = SYSTEM -> 4 [] OTHER -> 5

\* the text of one transaction summary, json.dumps of Transaction.to_dict()
TxNum(d) == 3 * NameNum(d.sender) + 5 * NameNum(d.receiver) + d.amount + 11 * d.timestamp

GenesisData == [message |-> "Genesis Block - ChainForge Initialized"]

\* json.dumps(self.data)
DataNum(data) ==
  IF "message" \in DOMAIN data THEN (IF data = GenesisData THEN 17 ELSE 19)
  ELSE 23 + 7 * Len(data.transactions)
          + SeqSum([i \in 1..Len(data.transactions) |-> i * TxNum(data.transactions[i])])

RECURSIVE DigitsNum(_)
DigitsNum(ds) == IF ds = <<>> THEN 0 ELSE (HexBase * DigitsNum(Tail(ds)) + Head(ds)) % 997

\* the digest string '0', previous_hash of the genesis block
ZeroHash == [hex |-> <<0>>, text |-> <<>>]

\* previous_hash as it enters the hashed text
PrevNum(prev) == DigitsNum(prev.hex)

RECURSIVE ToDigits(_, _)
\* v written with n digits of base HexBase, most significant first
ToDigits(v, n) ==
  IF n = 0 THEN <<>>
  ELSE ToDigits(v \div HexBase, n - 1) \o <<v % HexBase>>

\* Block.calculate_hash: a digest of index, timestamp, data, previous_hash and
\* nonce.  SHA-256 is modelled as a collision-free digest: its leading
\* characters (hex) are a fixed scrambling of the hashed text, and two digests
\* are equal exactly when the hashed fields are equal (text).
calculate_hash(b) ==
  LET seed == 131 * b.index + 71 * b.timestamp + 13 * DataNum(b.data)
              + 29 * PrevNum(b.previous_hash)
      v == (389 * seed + 617 * b.nonce + 211) % Modulus
  IN [hex |-> ToDigits(v, HashLen),
      text |-> <<b.index, b.timestamp, b.data, b.previous_hash, b.nonce>>]

\* self.hash[:difficulty]
HashPrefix(h, difficulty) ==
  SubSeq(h.hex, 1, IF difficulty < Len(h.hex) THEN difficulty ELSE Len(h.hex))

\* '0' * difficulty
Target(difficulty) == [i \in 1..difficulty |-> 0]

\* the block b with its nonce set to k and its hash recomputed
Renonced(b, k) ==
  LET n == [b EXCEPT !.nonce = k] IN [n EXCEPT !.hash = calculate_hash(n)]

\* mutant of mine_block: the loop compares one character less than the target
mine_block_short(b, difficulty) ==
  LET Found(k) == HashPrefix(Renonced(b, k).hash, difficulty - 1) = Target(difficulty - 1)
  IN IF HashPrefix(b.hash, difficulty - 1) = Target(difficulty - 1) THEN b
     ELSE Renonced(b, CHOOSE k \in (b.nonce + 1)..(b.nonce + Modulus) :
                        Found(k) /\ \A j \in (b.nonce + 1)..(k - 1) : ~Found(j))

\* mutant of mine_block: the hash is not recomputed for the last nonce tried
mine_block_stale_hash(b, difficulty) ==
  LET Found(k) == HashPrefix(Renonced(b, k).hash, difficulty) = Target(difficulty)
  IN IF HashPrefix(b.hash, difficulty) = Target(difficulty) THEN b
     ELSE LET m == Renonced(b, CHOOSE k \in (b.nonce + 1)..(b.nonce + Modulus) :
                                 Found(k) /\ \A j \in (b.nonce + 1)..(k - 1) : ~Found(j))
          IN [m EXCEPT !.nonce = m.nonce + 1]

\* Block.mine_block: the while loop raises the nonce by one and recomputes the
\* hash until the hash starts with the target; it ends at the first such nonce
mine_block(b, difficulty) ==
  LET Found(k) == HashPrefix(Renonced(b, k).hash, difficulty) = Target(difficulty)
  IN IF HashPrefix(b.hash, difficulty) = Target(difficulty) THEN b
     ELSE Renonced(b, CHOOSE k \in (b.nonce + 1)..(b.nonce + Modulus) :
                        Found(k) /\ \A j \in (b.nonce + 1)..(k - 1) : ~Found(j))

\* number of leading '0' characters of a digest
RECURSIVE LeadingZerosOf(_)
LeadingZerosOf(ds) ==
  IF ds = <<>> \/ Head(ds) # 0 THEN 0 ELSE 1 + LeadingZerosOf(Tail(ds))
LeadingZeros(h) == LeadingZerosOf(h.hex)

\* ------------------------------------------------------------ the tables
\* no Block object (None)
NoBlock == [pk |-> NULL, index |-> -1, timestamp |-> 0, data |-> GenesisData,
            previous_hash |-> ZeroHash, nonce |-> 0, hash |-> ZeroHash]

\* Transaction.to_dict
to_dict(tx) == [sender |-> tx.sender, receiver |-> tx.receiver,
                amount |-> tx.amount, timestamp |-> tx.timestamp]

\* Transaction.objects.filter(pending=True), positions in pk order
PendingIdx(table) == PendingFrom(table, 1)

\* Block.objects.exists()
BlocksExist == Len(blocks) > 0

\* Block.objects.order_by('-index'): every order the database may return,
\* rows of equal index in any order
DescOrders ==
  {o \in [1..Len(blocks) -> 1..Len(blocks)] :
     /\ \A i, j \in 1..Len(blocks) : i # j => o[i] # o[j]
     /\ \A i \in 1..Len(blocks) - 1 : blocks[o[i]].index >= blocks[o[i + 1]].index}

\* Blockchain.get_latest_block: the rows order_by('-index').first() may return
LatestBlocks == {b \in Range(blocks) : \A c \in Range(blocks) : c.index <= b.index}

\* the row a save() of block b inserts; save raises IntegrityError when the
\* unique hash column already holds b.hash
HashTaken(b) == \E i \in 1..Len(blocks) : blocks[i].hash = b.hash

\* ------------------------------------------------------------ processes
IdleLoc == [op |-> "none", miner |-> "", auto |-> FALSE, tx_data |-> <<>>,
            snap |-> <<>>, latest |-> NoBlock, new_block |-> NoBlock,
            used |-> 0, rounds |-> 0, left |-> 0, window |-> <<>>,
            dir |-> 0, old |-> 0, tmp |-> 0, info |-> <<>>,
            count |-> 0, mined |-> 0, base |-> 0]

\* the state of a fresh deployment, with n requests to come
Fresh(n) ==
  /\ blocks = <<>>
  /\ txs = <<>>
  /\ DIFFICULTY = DEFAULT_DIFFICULTY
  /\ TARGET_BLOCK_TIME = DEFAULT_TARGET_BLOCK_TIME
  /\ ADJUSTMENT_INTERVAL = DEFAULT_ADJUSTMENT_INTERVAL
  /\ now = 0
  /\ nextBlockPk = 1
  /\ nextTxPk = 1
  /\ pc = [p \in Procs |-> "idle"]
  /\ loc = [p \in Procs |-> IdleLoc]
  /\ resp = "none"
  /\ budget = n
  /\ history = <<>>

Init == Fresh(MaxRequests)

\* the request of p ends with this response
Finish(p, message) ==
  /\ pc' = [pc EXCEPT ![p] = "idle"]
  /\ loc' = [loc EXCEPT ![p] = IdleLoc]
  /\ resp' = message

\* p moves to statement l with its locals changed to r
Goto(p, l, r) ==
  /\ pc' = [pc EXCEPT ![p] = l]
  /\ loc' = [loc EXCEPT ![p] = r]
  /\ UNCHANGED resp

\* a request arrives at the idle process p
Arrive(p) ==
  /\ pc[p] = "idle"
  /\ budget > 0
  /\ budget' = budget - 1

\* time passes
Tick ==
  /\ now < MaxClock
  /\ now' = now + 1
  /\ UNCHANGED <<blocks, txs, DIFFICULTY, TARGET_BLOCK_TIME, ADJUSTMENT_INTERVAL,
                 nextBlockPk, nextTxPk, pc, loc, resp, budget, history>>

\* mutant of ValidAmount: the minimum is 0
ValidAmount_nonnegative(a) == a >= 0

\* TransactionSerializer: amount has min_value 0.01
ValidAmount(a) == 100 * a >= 1

\* a new Transaction row (pending defaults to True, block to None)
NewTx(s, r, a) == [pk |-> nextTxPk, sender |-> s, receiver |-> r, amount |-> a,
                   timestamp |-> now, block |-> NULL, pending |-> TRUE]

\* views.create_transaction with the request body in = (sender, receiver, amount)
create_transaction_request(p, in) ==
  /\ Arrive(p)
  /\ IF ValidAmount(in[3])
     THEN /\ txs' = Append(txs, NewTx(in[1], in[2], in[3]))
          /\ nextTxPk' = nextTxPk + 1
          /\ Finish(p, "Transaction created successfully")
     ELSE /\ Finish(p, "error 400: amount")
          /\ UNCHANGED <<txs, nextTxPk>>
  /\ UNCHANGED <<blocks, DIFFICULTY, TARGET_BLOCK_TIME, ADJUSTMENT_INTERVAL, now,
                 nextBlockPk, history>>

\* views.create_transaction
create_transaction(p) == \E in \in TxInputs : create_transaction_request(p, in)

\* mutant of GenesisBlock: the genesis block is mined like any other block
GenesisBlock_mined ==
  LET g == [pk |-> nextBlockPk, index |-> 0, timestamp |-> now, data |-> GenesisData,
            previous_hash |-> ZeroHash, nonce |-> 0, hash |-> ZeroHash]
  IN mine_block([g EXCEPT !.hash = calculate_hash(g)], DIFFICULTY)

\* Blockchain.create_genesis_block, the object before save()
GenesisBlock ==
  LET g == [pk |-> nextBlockPk, index |-> 0, timestamp |-> now, data |-> GenesisData,
            previous_hash |-> ZeroHash, nonce |-> 0, hash |-> ZeroHash]
  IN [g EXCEPT !.hash = calculate_hash(g)]

\* views.initialize_blockchain: the request arrives
initialize_blockchain(p) ==
  /\ Arrive(p)
  /\ Goto(p, "init_exists", [IdleLoc EXCEPT !.op = "initialize_blockchain"])
  /\ UNCHANGED <<blocks, txs, DIFFICULTY, TARGET_BLOCK_TIME, ADJUSTMENT_INTERVAL, now,
                 nextBlockPk, nextTxPk, history>>

\* mutant of init_exists: the check for existing blocks is skipped
init_exists_unguarded(p) ==
  /\ pc[p] = "init_exists"
  /\ Goto(p, "init_genesis", loc[p])
  /\ UNCHANGED <<blocks, txs, DIFFICULTY, TARGET_BLOCK_TIME, ADJUSTMENT_INTERVAL, now,
                 nextBlockPk, nextTxPk, history, budget>>

\* views.initialize_blockchain: if Block.objects.exists()
init_exists(p) ==
  /\ pc[p] = "init_exists"
  /\ IF BlocksExist
     THEN Finish(p, "Blockchain already initialized")
     ELSE Goto(p, "init_genesis", loc[p])
  /\ UNCHANGED <<blocks, txs, DIFFICULTY, TARGET_BLOCK_TIME, ADJUSTMENT_INTERVAL, now,
                 nextBlockPk, nextTxPk, history, budget>>

\* views.initialize_blockchain: Blockchain.create_genesis_block()
init_genesis(p) ==
  /\ pc[p] = "init_genesis"
  /\ IF HashTaken(GenesisBlock)
     THEN /\ Finish(p, "error 500")
          /\ UNCHANGED <<blocks, nextBlockPk, history>>
     ELSE /\ blocks' = Append(blocks, GenesisBlock)
          /\ nextBlockPk' = nextBlockPk + 1
          /\ history' = Append(history, [snap |-> <<>>, difficulty |-> 0,
                                           round |-> FALSE, reward |-> NULL])
          /\ Finish(p, "Blockchain initialized with genesis block")
  /\ UNCHANGED <<txs, DIFFICULTY, TARGET_BLOCK_TIME, ADJUSTMENT_INTERVAL, now, nextTxPk, budget>>

\* QuickSetup: the loops of views.quick_setup, 20 transactions and 5 rounds in
\* the code, scaled to the bounds below
QuickSetupTxs == 1
QuickSetupRounds == 1

\* views.mine_block: the message for the result of mine_pending_transactions.
\* The result is the pair (new_block, adjustment_info), the pair (None, None)
\* when nothing was pending; None itself (the empty tuple here) is never returned.
MineBlockMessage(result) ==
  IF result = <<>> THEN "No pending transactions to mine"
  ELSE IF result[1].pk = NULL THEN "No block mined"
  ELSE "Block mined successfully"

\* views.batch_mine_blocks: f'{len(blocks_mined)} blocks mined successfully'
BatchMessage(n) == ToString(n) \o " blocks mined successfully"

\* mine_pending_transactions returns (new_block, adjustment_info) to its caller
MpReturn(p, nb, info) ==
  CASE loc[p].op = "mine_block" ->
         Finish(p, MineBlockMessage(<<nb, info>>))
    [] loc[p].op = "quick_setup" ->
         IF loc[p].rounds > 1
         THEN Goto(p, "mp_exists", [IdleLoc EXCEPT !.op = loc[p].op, !.miner = loc[p].miner,
                                                   !.auto = loc[p].auto,
                                                   !.rounds = loc[p].rounds - 1])
         ELSE Finish(p, "Quick setup complete!")
    [] loc[p].op = "batch_mine_blocks" ->
         \* views.batch_mine_blocks: if new_block, blocks_mined.append(block_info);
         \* then the next iteration of the loop, or its end
         LET mined == loc[p].mined + (IF nb.pk # NULL THEN 1 ELSE 0)
         IN IF loc[p].rounds > 1
            THEN Goto(p, "bm_pending", [IdleLoc EXCEPT !.op = loc[p].op, !.miner = loc[p].miner,
                                                       !.auto = loc[p].auto,
                                                       !.rounds = loc[p].rounds - 1,
                                                       !.count = loc[p].count,
                                                       !.mined = mined,
                                                       !.base = loc[p].base])
            ELSE Finish(p, BatchMessage(mined))

\* adjust_difficulty returns (adjusted, message, info) to its caller
AdjReturn(p, adjusted, message, info) ==
  IF loc[p].op = "manual_adjust_difficulty"
  THEN Finish(p, message)
  ELSE MpReturn(p, loc[p].new_block, IF adjusted THEN info ELSE <<>>)

\* views.mine_block: the request arrives with a valid miner address
view_mine_block(p) ==
  /\ Arrive(p)
  /\ \E m \in Miners :
       Goto(p, "mp_exists", [IdleLoc EXCEPT !.op = "mine_block", !.miner = m,
                                            !.auto = TRUE, !.rounds = 1])
  /\ UNCHANGED <<blocks, txs, DIFFICULTY, TARGET_BLOCK_TIME, ADJUSTMENT_INTERVAL, now,
                 nextBlockPk, nextTxPk, history>>

\* mutant of mp_exists: the round goes on without pending transactions
mp_exists_unchecked(p) ==
  /\ pc[p] = "mp_exists"
  /\ Goto(p, "mp_snapshot", loc[p])
  /\ UNCHANGED <<blocks, txs, DIFFICULTY, TARGET_BLOCK_TIME, ADJUSTMENT_INTERVAL, now,
                 nextBlockPk, nextTxPk, history, budget>>

\* mine_pending_transactions: if not pending_txs.exists()
mp_exists(p) ==
  /\ pc[p] = "mp_exists"
  /\ IF PendingIdx(txs) = <<>>
     THEN MpReturn(p, NoBlock, <<>>)
     ELSE Goto(p, "mp_snapshot", loc[p])
  /\ UNCHANGED <<blocks, txs, DIFFICULTY, TARGET_BLOCK_TIME, ADJUSTMENT_INTERVAL, now,
                 nextBlockPk, nextTxPk, history, budget>>

\* mine_pending_transactions: tx_data, the queryset is evaluated here
mp_snapshot(p) ==
  /\ pc[p] = "mp_snapshot"
  /\ LET idx == PendingIdx(txs)
     IN Goto(p, "ab_latest",
             [loc[p] EXCEPT !.tx_data = [i \in 1..Len(idx) |-> to_dict(txs[idx[i]])],
                            !.snap = [i \in 1..Len(idx) |-> txs[idx[i]].pk]])
  /\ UNCHANGED <<blocks, txs, DIFFICULTY, TARGET_BLOCK_TIME, ADJUSTMENT_INTERVAL, now,
                 nextBlockPk, nextTxPk, history, budget>>

\* add_block: latest_block = Blockchain.get_latest_block()
ab_latest(p) ==
  /\ pc[p] = "ab_latest"
  /\ IF ~BlocksExist
     THEN Goto(p, "ab_genesis", loc[p])
     ELSE \E b \in LatestBlocks : Goto(p, "ab_mine", [loc[p] EXCEPT !.latest = b])
  /\ UNCHANGED <<blocks, txs, DIFFICULTY, TARGET_BLOCK_TIME, ADJUSTMENT_INTERVAL, now,
                 nextBlockPk, nextTxPk, history, budget>>

\* add_block: return Blockchain.create_genesis_block(); data is dropped
ab_genesis(p) ==
  /\ pc[p] = "ab_genesis"
  /\ IF HashTaken(GenesisBlock)
     THEN /\ Finish(p, "error 500")
          /\ UNCHANGED <<blocks, nextBlockPk, history>>
     ELSE /\ blocks' = Append(blocks, GenesisBlock)
          /\ nextBlockPk' = nextBlockPk + 1
          /\ history' = Append(history, [snap |-> <<>>, difficulty |-> 0,
                                           round |-> TRUE, reward |-> NULL])
          /\ Goto(p, "mp_update", [loc[p] EXCEPT !.new_block = GenesisBlock])
  /\ UNCHANGED <<txs, DIFFICULTY, TARGET_BLOCK_TIME, ADJUSTMENT_INTERVAL, now, nextTxPk, budget>>

\* mutant of Candidate: previous_hash is taken from the wrong field of latest
Candidate_stale_link(latest, data) ==
  LET c == [pk |-> NULL, index |-> latest.index + 1, timestamp |-> now, data |-> data,
            previous_hash |-> latest.previous_hash, nonce |-> 0, hash |-> ZeroHash]
  IN [c EXCEPT !.hash = calculate_hash(c)]

\* mutant of Candidate: the index is not advanced
Candidate_same_index(latest, data) ==
  LET c == [pk |-> NULL, index |-> latest.index, timestamp |-> now, data |-> data,
            previous_hash |-> latest.hash, nonce |-> 0, hash |-> ZeroHash]
  IN [c EXCEPT !.hash = calculate_hash(c)]

\* add_block: the candidate Block(...) with its provisional hash, not yet mined
Candidate(latest, data) ==
  LET c == [pk |-> NULL, index |-> latest.index + 1, timestamp |-> now, data |-> data,
            previous_hash |-> latest.hash, nonce |-> 0, hash |-> ZeroHash]
  IN [c EXCEPT !.hash = calculate_hash(c)]

\* add_block: new_block built and new_block.mine_block(Blockchain.DIFFICULTY)
ab_mine(p) ==
  /\ pc[p] = "ab_mine"
  /\ Goto(p, "ab_save",
          [loc[p] EXCEPT !.new_block = mine_block(Candidate(loc[p].latest,
                                                   [transactions |-> loc[p].tx_data]),
                                                  DIFFICULTY),
                         !.used = DIFFICULTY])
  /\ UNCHANGED <<blocks, txs, DIFFICULTY, TARGET_BLOCK_TIME, ADJUSTMENT_INTERVAL, now,
                 nextBlockPk, nextTxPk, history, budget>>

\* mutant of ab_save: the row of the latest block is overwritten
ab_save_replacing(p) ==
  /\ pc[p] = "ab_save"
  /\ IF HashTaken(loc[p].new_block)
     THEN /\ Finish(p, "error 500")
          /\ UNCHANGED <<blocks, nextBlockPk, history>>
     ELSE LET row == [loc[p].new_block EXCEPT !.pk = nextBlockPk]
          IN /\ blocks' = [blocks EXCEPT ![Len(blocks)] = row]
             /\ nextBlockPk' = nextBlockPk + 1
             /\ history' = Append(history, [snap |-> loc[p].snap,
                                              difficulty |-> loc[p].used,
                                              round |-> TRUE, reward |-> NULL])
             /\ Goto(p, "mp_update", [loc[p] EXCEPT !.new_block = row])
  /\ UNCHANGED <<txs, DIFFICULTY, TARGET_BLOCK_TIME, ADJUSTMENT_INTERVAL, now, nextTxPk, budget>>

\* add_block: new_block.save()
ab_save(p) ==
  /\ pc[p] = "ab_save"
  /\ IF HashTaken(loc[p].new_block)
     THEN /\ Finish(p, "error 500")
          /\ UNCHANGED <<blocks, nextBlockPk, history>>
     ELSE LET row == [loc[p].new_block EXCEPT !.pk = nextBlockPk]
          IN /\ blocks' = Append(blocks, row)
             /\ nextBlockPk' = nextBlockPk + 1
             /\ history' = Append(history, [snap |-> loc[p].snap,
                                              difficulty |-> loc[p].used,
                                              round |-> TRUE, reward |-> NULL])
             /\ Goto(p, "mp_update", [loc[p] EXCEPT !.new_block = row])
  /\ UNCHANGED <<txs, DIFFICULTY, TARGET_BLOCK_TIME, ADJUSTMENT_INTERVAL, now, nextTxPk, budget>>

\* mutant of UpdatePending: the UPDATE stops after the first pending row
UpdatePending_first(table, pk) ==
  [i \in 1..Len(table) |->
     IF table[i].pending /\ PendingIdx(table)[1] = i
     THEN [table[i] EXCEPT !.block = pk, !.pending = FALSE]
     ELSE table[i]]

\* mutant of UpdatePending: the UPDATE is not restricted to the pending rows
UpdatePending_all(table, pk) ==
  [i \in 1..Len(table) |-> [table[i] EXCEPT !.block = pk, !.pending = FALSE]]

\* pending_txs.update(block=new_block, pending=False): one UPDATE statement
\* over the rows that are pending when it runs
UpdatePending(table, pk) ==
  [i \in 1..Len(table) |->
     IF table[i].pending THEN [table[i] EXCEPT !.block = pk, !.pending = FALSE]
     ELSE table[i]]

\* mine_pending_transactions: pending_txs.update(...)
mp_update(p) ==
  /\ pc[p] = "mp_update"
  /\ txs' = UpdatePending(txs, loc[p].new_block.pk)
  /\ Goto(p, "mp_reward", loc[p])
  /\ UNCHANGED <<blocks, DIFFICULTY, TARGET_BLOCK_TIME, ADJUSTMENT_INTERVAL, now,
                 nextBlockPk, nextTxPk, history, budget>>

\* mutant of mp_reward: the reward is saved as settled by the round's own block
mp_reward_settled(p) ==
  /\ pc[p] = "mp_reward"
  /\ txs' = Append(txs, [NewTx(SYSTEM, loc[p].miner, MINING_REWARD)
                           EXCEPT !.pending = FALSE, !.block = loc[p].new_block.pk])
  /\ nextTxPk' = nextTxPk + 1
  /\ IF loc[p].auto
     THEN Goto(p, "adj_latest", loc[p])
     ELSE MpReturn(p, loc[p].new_block, <<>>)
  /\ history' = [history EXCEPT ![loc[p].new_block.pk].reward = nextTxPk]
  /\ UNCHANGED <<blocks, DIFFICULTY, TARGET_BLOCK_TIME, ADJUSTMENT_INTERVAL, now,
                 nextBlockPk, budget>>

\* mutant of mp_reward: the retarget is evaluated whatever auto_adjust is
mp_reward_always_adjusts(p) ==
  /\ pc[p] = "mp_reward"
  /\ txs' = Append(txs, NewTx(SYSTEM, loc[p].miner, MINING_REWARD))
  /\ nextTxPk' = nextTxPk + 1
  /\ Goto(p, "adj_latest", loc[p])
  /\ history' = [history EXCEPT ![loc[p].new_block.pk].reward = nextTxPk]
  /\ UNCHANGED <<blocks, DIFFICULTY, TARGET_BLOCK_TIME, ADJUSTMENT_INTERVAL, now,
                 nextBlockPk, budget>>

\* mine_pending_transactions: reward_tx.save()
mp_reward(p) ==
  /\ pc[p] = "mp_reward"
  /\ txs' = Append(txs, NewTx(SYSTEM, loc[p].miner, MINING_REWARD))
  /\ nextTxPk' = nextTxPk + 1
  /\ IF loc[p].auto
     THEN Goto(p, "adj_latest", loc[p])
     ELSE MpReturn(p, loc[p].new_block, <<>>)
  /\ history' = [history EXCEPT ![loc[p].new_block.pk].reward = nextTxPk]
  /\ UNCHANGED <<blocks, DIFFICULTY, TARGET_BLOCK_TIME, ADJUSTMENT_INTERVAL, now,
                 nextBlockPk, budget>>

\* Block.objects.order_by('-index')[:n], reversed
LastWindows(n) ==
  {[i \in 1..(IF n < Len(blocks) THEN n ELSE Len(blocks)) |->
      blocks[o[(IF n < Len(blocks) THEN n ELSE Len(blocks)) + 1 - i]]] : o \in DescOrders}

\* mutant of adj_latest: the check for the adjustment point is skipped
adj_latest_no_boundary(p) ==
  /\ pc[p] = "adj_latest"
  /\ IF ~BlocksExist
     THEN AdjReturn(p, FALSE, "Not enough blocks to adjust difficulty", <<>>)
     ELSE \E b \in LatestBlocks :
            IF b.index < ADJUSTMENT_INTERVAL
            THEN AdjReturn(p, FALSE, "Not enough blocks to adjust difficulty", <<>>)
            ELSE Goto(p, "adj_blocks", loc[p])
  /\ UNCHANGED <<blocks, txs, DIFFICULTY, TARGET_BLOCK_TIME, ADJUSTMENT_INTERVAL, now,
                 nextBlockPk, nextTxPk, history, budget>>

\* adjust_difficulty: latest_block and the two checks that gate the retarget
adj_latest(p) ==
  /\ pc[p] = "adj_latest"
  /\ IF ~BlocksExist
     THEN AdjReturn(p, FALSE, "Not enough blocks to adjust difficulty", <<>>)
     ELSE \E b \in LatestBlocks :
            IF b.index < ADJUSTMENT_INTERVAL
            THEN AdjReturn(p, FALSE, "Not enough blocks to adjust difficulty", <<>>)
            ELSE IF (b.index + 1) % ADJUSTMENT_INTERVAL # 0
            THEN AdjReturn(p, FALSE, "Not at adjustment interval", <<>>)
            ELSE Goto(p, "adj_blocks", loc[p])
  /\ UNCHANGED <<blocks, txs, DIFFICULTY, TARGET_BLOCK_TIME, ADJUSTMENT_INTERVAL, now,
                 nextBlockPk, nextTxPk, history, budget>>

\* mutant of adj_blocks: the ratio is computed without the check for a zero
\* expected time, and the division by zero is an unhandled exception
adj_blocks_dividing(p) ==
  /\ pc[p] = "adj_blocks"
  /\ \E w \in LastWindows(ADJUSTMENT_INTERVAL) :
       LET time_taken == w[Len(w)].timestamp - w[1].timestamp
           expected_time == TARGET_BLOCK_TIME * (ADJUSTMENT_INTERVAL - 1)
       IN IF Len(w) < ADJUSTMENT_INTERVAL
          THEN AdjReturn(p, FALSE, "Not enough blocks", <<>>)
          ELSE IF expected_time = 0
          THEN Finish(p, "error 500")
          ELSE IF 2 * time_taken < expected_time
          THEN Goto(p, "adj_read", [loc[p] EXCEPT !.old = DIFFICULTY, !.dir = 1])
          ELSE IF time_taken > 2 * expected_time
          THEN Goto(p, "adj_read", [loc[p] EXCEPT !.old = DIFFICULTY, !.dir = -1])
          ELSE AdjReturn(p, FALSE, "Difficulty unchanged (mining time acceptable)", <<>>)
  /\ UNCHANGED <<blocks, txs, DIFFICULTY, TARGET_BLOCK_TIME, ADJUSTMENT_INTERVAL, now,
                 nextBlockPk, nextTxPk, history, budget>>

\* mutant of adj_blocks: the two comparisons of the ratio include their bounds
adj_blocks_inclusive(p) ==
  /\ pc[p] = "adj_blocks"
  /\ \E w \in LastWindows(ADJUSTMENT_INTERVAL) :
       LET time_taken == w[Len(w)].timestamp - w[1].timestamp
           expected_time == TARGET_BLOCK_TIME * (ADJUSTMENT_INTERVAL - 1)
       IN IF Len(w) < ADJUSTMENT_INTERVAL
          THEN AdjReturn(p, FALSE, "Not enough blocks", <<>>)
          ELSE IF expected_time = 0
          THEN AdjReturn(p, FALSE, "Invalid time calculation", <<>>)
          ELSE IF 2 * time_taken <= expected_time
          THEN Goto(p, "adj_read", [loc[p] EXCEPT !.old = DIFFICULTY, !.dir = 1])
          ELSE IF time_taken >= 2 * expected_time
          THEN Goto(p, "adj_read", [loc[p] EXCEPT !.old = DIFFICULTY, !.dir = -1])
          ELSE AdjReturn(p, FALSE, "Difficulty unchanged (mining time acceptable)", <<>>)
  /\ UNCHANGED <<blocks, txs, DIFFICULTY, TARGET_BLOCK_TIME, ADJUSTMENT_INTERVAL, now,
                 nextBlockPk, nextTxPk, history, budget>>

\* adjust_difficulty: the last ADJUSTMENT_INTERVAL blocks, the ratio of the
\* time they took to the expected time, and the branch taken on it
adj_blocks(p) ==
  /\ pc[p] = "adj_blocks"
  /\ \E w \in LastWindows(ADJUSTMENT_INTERVAL) :
       LET time_taken == w[Len(w)].timestamp - w[1].timestamp
           expected_time == TARGET_BLOCK_TIME * (ADJUSTMENT_INTERVAL - 1)
       IN IF Len(w) < ADJUSTMENT_INTERVAL
          THEN AdjReturn(p, FALSE, "Not enough blocks", <<>>)
          ELSE IF expected_time = 0
          THEN AdjReturn(p, FALSE, "Invalid time calculation", <<>>)
          ELSE IF 2 * time_taken < expected_time          \* ratio < 0.5
          THEN Goto(p, "adj_read", [loc[p] EXCEPT !.old = DIFFICULTY, !.dir = 1])
          ELSE IF time_taken > 2 * expected_time          \* ratio > 2.0
          THEN Goto(p, "adj_read", [loc[p] EXCEPT !.old = DIFFICULTY, !.dir = -1])
          ELSE AdjReturn(p, FALSE, "Difficulty unchanged (mining time acceptable)", <<>>)
  /\ UNCHANGED <<blocks, txs, DIFFICULTY, TARGET_BLOCK_TIME, ADJUSTMENT_INTERVAL, now,
                 nextBlockPk, nextTxPk, history, budget>>

\* adjust_difficulty: cls.DIFFICULTY is read on the right-hand side
adj_read(p) ==
  /\ pc[p] = "adj_read"
  /\ Goto(p, "adj_write", [loc[p] EXCEPT !.tmp = DIFFICULTY])
  /\ UNCHANGED <<blocks, txs, DIFFICULTY, TARGET_BLOCK_TIME, ADJUSTMENT_INTERVAL, now,
                 nextBlockPk, nextTxPk, history, budget>>

\* mutant of Stepped: the step is not clamped
Stepped_unclamped(d, dir) == d + dir

\* min(10, d + 1) and max(1, d - 1)
Stepped(d, dir) ==
  IF dir = 1
  THEN (IF d + 1 < MAX_DIFFICULTY THEN d + 1 ELSE MAX_DIFFICULTY)
  ELSE (IF d - 1 > MIN_DIFFICULTY THEN d - 1 ELSE MIN_DIFFICULTY)

\* adjust_difficulty: cls.DIFFICULTY is assigned
adj_write(p) ==
  /\ pc[p] = "adj_write"
  /\ DIFFICULTY' = Stepped(loc[p].tmp, loc[p].dir)
  /\ Goto(p, "adj_info", loc[p])
  /\ UNCHANGED <<blocks, txs, TARGET_BLOCK_TIME, ADJUSTMENT_INTERVAL, now,
                 nextBlockPk, nextTxPk, history, budget>>

\* adjust_difficulty: adjustment_info, new_difficulty is read from cls.DIFFICULTY
adj_info(p) ==
  /\ pc[p] = "adj_info"
  /\ AdjReturn(p, TRUE,
               IF loc[p].dir = 1 THEN "Difficulty increased (blocks mined too fast)"
               ELSE "Difficulty decreased (blocks mined too slow)",
               <<loc[p].old, DIFFICULTY>>)
  /\ UNCHANGED <<blocks, txs, DIFFICULTY, TARGET_BLOCK_TIME, ADJUSTMENT_INTERVAL, now,
                 nextBlockPk, nextTxPk, history, budget>>

\* views.manual_adjust_difficulty: the request arrives
manual_adjust_difficulty(p) ==
  /\ Arrive(p)
  /\ Goto(p, "adj_latest", [IdleLoc EXCEPT !.op = "manual_adjust_difficulty"])
  /\ UNCHANGED <<blocks, txs, DIFFICULTY, TARGET_BLOCK_TIME, ADJUSTMENT_INTERVAL, now,
                 nextBlockPk, nextTxPk, history>>

\* requested difficulties, around both ends of the accepted range
DifficultyInputs == {0, 1, 2, 10, 11}

\* mutant of Blockchain_set_difficulty: the upper end of the range is not checked
Blockchain_set_difficulty_open(new_difficulty) ==
  IF new_difficulty < MIN_DIFFICULTY
  THEN <<FALSE, "Difficulty must be between 1 and 10", DIFFICULTY>>
  ELSE <<TRUE, "Difficulty set to " \o ToString(new_difficulty), new_difficulty>>

\* Blockchain.set_difficulty: (success, message) and the value cls.DIFFICULTY
\* holds afterwards
Blockchain_set_difficulty(new_difficulty) ==
  IF new_difficulty < MIN_DIFFICULTY \/ new_difficulty > MAX_DIFFICULTY
  THEN <<FALSE, "Difficulty must be between 1 and 10", DIFFICULTY>>
  ELSE <<TRUE, "Difficulty set to " \o ToString(new_difficulty), new_difficulty>>

\* views.set_difficulty with the request body {'difficulty': d}
set_difficulty_request(p, d) ==
  /\ Arrive(p)
  /\ IF d < MIN_DIFFICULTY                                \* SetDifficultySerializer
     THEN Finish(p, "error 400: difficulty") /\ UNCHANGED DIFFICULTY
     ELSE LET result == Blockchain_set_difficulty(d)
          IN /\ DIFFICULTY' = result[3]
             /\ Finish(p, result[2])
  /\ UNCHANGED <<blocks, txs, TARGET_BLOCK_TIME, ADJUSTMENT_INTERVAL, now,
                 nextBlockPk, nextTxPk, history>>

\* views.set_difficulty
set_difficulty(p) == \E d \in DifficultyInputs : set_difficulty_request(p, d)

\* requested target block times and adjustment intervals
TargetTimeInputs == {1, 2}
IntervalInputs == {1, 2}
\* requested numbers of blocks of batch_mine_blocks
BatchCounts == {4}
\* the transactions batch_mine_blocks draws at random: sender, receiver, amount
BatchInputs == {<<"Alice", "Bob", 50>>}

\* views.set_target_time
set_target_time(p) ==
  /\ Arrive(p)
  /\ \E t \in TargetTimeInputs :
       /\ TARGET_BLOCK_TIME' = t
       /\ Finish(p, "Target block time set")
  /\ UNCHANGED <<blocks, txs, DIFFICULTY, ADJUSTMENT_INTERVAL, now,
                 nextBlockPk, nextTxPk, history>>

\* views.set_adjustment_interval
set_adjustment_interval(p) ==
  /\ Arrive(p)
  /\ \E n \in IntervalInputs :
       /\ ADJUSTMENT_INTERVAL' = n
       /\ Finish(p, "Adjustment interval set")
  /\ UNCHANGED <<blocks, txs, DIFFICULTY, TARGET_BLOCK_TIME, now,
                 nextBlockPk, nextTxPk, history>>

\* views.quick_setup: the request arrives
quick_setup(p) ==
  /\ Arrive(p)
  /\ Goto(p, "qs_exists", [IdleLoc EXCEPT !.op = "quick_setup",
                                          !.miner = "QuickSetupMiner", !.auto = TRUE])
  /\ UNCHANGED <<blocks, txs, DIFFICULTY, TARGET_BLOCK_TIME, ADJUSTMENT_INTERVAL, now,
                 nextBlockPk, nextTxPk, history>>

\* views.quick_setup: if not Block.objects.exists()
qs_exists(p) ==
  /\ pc[p] = "qs_exists"
  /\ IF BlocksExist
     THEN Goto(p, "qs_txs", [loc[p] EXCEPT !.left = QuickSetupTxs])
     ELSE Goto(p, "qs_genesis", loc[p])
  /\ UNCHANGED <<blocks, txs, DIFFICULTY, TARGET_BLOCK_TIME, ADJUSTMENT_INTERVAL, now,
                 nextBlockPk, nextTxPk, history, budget>>

\* views.quick_setup: Blockchain.create_genesis_block()
qs_genesis(p) ==
  /\ pc[p] = "qs_genesis"
  /\ IF HashTaken(GenesisBlock)
     THEN /\ Finish(p, "error 500")
          /\ UNCHANGED <<blocks, nextBlockPk, history>>
     ELSE /\ blocks' = Append(blocks, GenesisBlock)
          /\ nextBlockPk' = nextBlockPk + 1
          /\ history' = Append(history, [snap |-> <<>>, difficulty |-> 0,
                                           round |-> FALSE, reward |-> NULL])
          /\ Goto(p, "qs_txs", [loc[p] EXCEPT !.left = QuickSetupTxs])
  /\ UNCHANGED <<txs, DIFFICULTY, TARGET_BLOCK_TIME, ADJUSTMENT_INTERVAL, now, nextTxPk, budget>>

\* views.quick_setup: one Transaction.objects.create of the first loop, or the
\* loop's end
qs_txs(p) ==
  /\ pc[p] = "qs_txs"
  /\ IF loc[p].left = 0
     THEN /\ Goto(p, "mp_exists", [loc[p] EXCEPT !.rounds = QuickSetupRounds])
          /\ UNCHANGED <<txs, nextTxPk>>
     ELSE /\ \E s \in Names, a \in Amounts :
               \E r \in Names \ {s} : txs' = Append(txs, NewTx(s, r, a))
          /\ nextTxPk' = nextTxPk + 1
          /\ Goto(p, "qs_txs", [loc[p] EXCEPT !.left = loc[p].left - 1])
  /\ UNCHANGED <<blocks, DIFFICULTY, TARGET_BLOCK_TIME, ADJUSTMENT_INTERVAL, now,
                 nextBlockPk, history, budget>>

\* views.batch_mine_blocks: the request arrives with a valid count; the
\* transactions generated for a round without pending ones are random.randint(3, 8)
\* in the code, scaled to BatchTxs; a run stores at most MaxRetargetBlocks blocks
batch_mine_request(p, count, auto_adjust) ==
  /\ Arrive(p)
  /\ nextBlockPk + count - 1 <= MaxRetargetBlocks
  /\ Goto(p, "bm_pending", [IdleLoc EXCEPT !.op = "batch_mine_blocks",
                                          !.miner = "BatchMiner", !.auto = auto_adjust,
                                          !.rounds = count, !.count = count,
                                          !.base = Len(blocks)])
  /\ UNCHANGED <<blocks, txs, DIFFICULTY, TARGET_BLOCK_TIME, ADJUSTMENT_INTERVAL, now,
                 nextBlockPk, nextTxPk, history>>

\* views.batch_mine_blocks, auto_adjust left at its default
batch_mine_blocks(p) == \E count \in BatchCounts : batch_mine_request(p, count, TRUE)

\* mutant of bm_pending: no transactions are generated for an empty round
bm_pending_no_fill(p) ==
  /\ pc[p] = "bm_pending"
  /\ Goto(p, "mp_exists", loc[p])
  /\ UNCHANGED <<blocks, txs, DIFFICULTY, TARGET_BLOCK_TIME, ADJUSTMENT_INTERVAL, now,
                 nextBlockPk, nextTxPk, history, budget>>

\* views.batch_mine_blocks: pending_count = Transaction.objects.filter(pending=True).count()
bm_pending(p) ==
  /\ pc[p] = "bm_pending"
  /\ IF PendingIdx(txs) = <<>>
     THEN Goto(p, "bm_txs", [loc[p] EXCEPT !.left = BatchTxs])
     ELSE Goto(p, "mp_exists", loc[p])
  /\ UNCHANGED <<blocks, txs, DIFFICULTY, TARGET_BLOCK_TIME, ADJUSTMENT_INTERVAL, now,
                 nextBlockPk, nextTxPk, history, budget>>

\* views.batch_mine_blocks: one Transaction.objects.create of the inner loop, or
\* the loop's end
bm_txs(p) ==
  /\ pc[p] = "bm_txs"
  /\ IF loc[p].left = 0
     THEN /\ Goto(p, "mp_exists", loc[p])
          /\ UNCHANGED <<txs, nextTxPk>>
     ELSE /\ \E in \in BatchInputs : txs' = Append(txs, NewTx(in[1], in[2], in[3]))
          /\ nextTxPk' = nextTxPk + 1
          /\ Goto(p, "bm_txs", [loc[p] EXCEPT !.left = loc[p].left - 1])
  /\ UNCHANGED <<blocks, DIFFICULTY, TARGET_BLOCK_TIME, ADJUSTMENT_INTERVAL, now,
                 nextBlockPk, history, budget>>

\* time passes, up to the longer horizon of the retarget runs
Wait ==
  /\ now < MaxRetargetClock
  /\ now' = now + 1
  /\ UNCHANGED <<blocks, txs, DIFFICULTY, TARGET_BLOCK_TIME, ADJUSTMENT_INTERVAL,
                 nextBlockPk, nextTxPk, pc, loc, resp, budget, history>>

\* views.reset_blockchain: the request arrives with the body {'confirm': confirm}
\* (a body without the flag is refused like confirm = false)
reset_request(p, confirm) ==
  /\ Arrive(p)
  /\ IF confirm
     THEN Goto(p, "reset_blocks", [IdleLoc EXCEPT !.op = "reset_blockchain"])
     ELSE Finish(p, "error 400: confirm")
  /\ UNCHANGED <<blocks, txs, DIFFICULTY, TARGET_BLOCK_TIME, ADJUSTMENT_INTERVAL, now,
                 nextBlockPk, nextTxPk, history>>

\* views.reset_blockchain
reset_blockchain(p) == \E confirm \in BOOLEAN : reset_request(p, confirm)

\* views.reset_blockchain: Block.objects.all().delete(), which cascades to the
\* transactions that reference a block
reset_blocks(p) ==
  /\ pc[p] = "reset_blocks"
  /\ blocks' = <<>>
  /\ txs' = SelectSeq(txs, LAMBDA t : t.block = NULL)
  /\ Goto(p, "reset_txs", loc[p])
  /\ UNCHANGED <<DIFFICULTY, TARGET_BLOCK_TIME, ADJUSTMENT_INTERVAL, now,
                 nextBlockPk, nextTxPk, history, budget>>

\* mutant of reset_txs: only the settled transactions are deleted
reset_txs_settled_only(p) ==
  /\ pc[p] = "reset_txs"
  /\ txs' = SelectSeq(txs, LAMBDA t : t.pending)
  /\ Goto(p, "reset_difficulty", loc[p])
  /\ UNCHANGED <<blocks, DIFFICULTY, TARGET_BLOCK_TIME, ADJUSTMENT_INTERVAL, now,
                 nextBlockPk, nextTxPk, history, budget>>

\* views.reset_blockchain: Transaction.objects.all().delete()
reset_txs(p) ==
  /\ pc[p] = "reset_txs"
  /\ txs' = <<>>
  /\ Goto(p, "reset_difficulty", loc[p])
  /\ UNCHANGED <<blocks, DIFFICULTY, TARGET_BLOCK_TIME, ADJUSTMENT_INTERVAL, now,
                 nextBlockPk, nextTxPk, history, budget>>

\* views.reset_blockchain: Blockchain.DIFFICULTY = 4
reset_difficulty(p) ==
  /\ pc[p] = "reset_difficulty"
  /\ DIFFICULTY' = DEFAULT_DIFFICULTY
  /\ Finish(p, "Blockchain reset successfully")
  /\ UNCHANGED <<blocks, txs, TARGET_BLOCK_TIME, ADJUSTMENT_INTERVAL, now,
                 nextBlockPk, nextTxPk, history, budget>>

\* ------------------------------------------------------- specifications
\* one step of the request process p serves
MineStep(p) ==
  \/ mp_exists(p) \/ mp_snapshot(p) \/ ab_latest(p) \/ ab_genesis(p)
  \/ ab_mine(p) \/ ab_save(p) \/ mp_update(p) \/ mp_reward(p)

AdjustStep(p) ==
  \/ adj_latest(p) \/ adj_blocks(p) \/ adj_read(p) \/ adj_write(p) \/ adj_info(p)

\* requests served at the same time, interleaved statement by statement
Next ==
  \/ Tick
  \/ \E p \in Procs :
       \/ create_transaction(p)
       \/ initialize_blockchain(p) \/ init_exists(p) \/ init_genesis(p)
       \/ view_mine_block(p) \/ MineStep(p) \/ adj_latest(p)

Spec == Init /\ [][Next]_vars

\* the requests that may create the genesis block, served at the same time
GenesisNext ==
  \/ Tick
  \/ \E p \in Procs :
       \/ create_transaction(p)
       \/ initialize_blockchain(p) \/ init_exists(p) \/ init_genesis(p)
       \/ view_mine_block(p) \/ MineStep(p) \/ adj_latest(p)
       \/ quick_setup(p) \/ qs_exists(p) \/ qs_genesis(p) \/ qs_txs(p)

GenesisSpec == Fresh(MaxGenesisRequests) /\ [][GenesisNext]_vars

\* requests served one after the other: a single process, so that a request
\* runs to its response before the next one arrives
SeqNext ==
  \/ Tick
  \/ \E p \in {1} :
       \/ create_transaction(p)
       \/ initialize_blockchain(p) \/ init_exists(p) \/ init_genesis(p)
       \/ view_mine_block(p) \/ MineStep(p) \/ AdjustStep(p)
       \/ set_difficulty(p) \/ set_target_time(p) \/ set_adjustment_interval(p)
       \/ manual_adjust_difficulty(p)
       \/ reset_blockchain(p) \/ reset_blocks(p) \/ reset_txs(p) \/ reset_difficulty(p)

SeqSpec == Fresh(MaxSeqRequests) /\ [][SeqNext]_vars

\* the difficulty controller: batch mining, the settings and the retarget,
\* requests served one after the other
RetargetNext ==
  \/ Wait
  \/ \E p \in {1} :
       \/ batch_mine_blocks(p) \/ bm_pending(p) \/ bm_txs(p)
       \/ MineStep(p) \/ AdjustStep(p)
       \/ set_difficulty(p) \/ set_target_time(p) \/ set_adjustment_interval(p)
       \/ manual_adjust_difficulty(p)
       \/ reset_blockchain(p) \/ reset_blocks(p) \/ reset_txs(p) \/ reset_difficulty(p)

RetargetSpec == Fresh(MaxRetargetRequests) /\ [][RetargetNext]_vars

\* submitted request bodies, with amounts on both sides of the serializer's
\* minimum: sender, receiver, amount
SubmitInputs == {<<"Alice", "Bob", 50>>, <<"Alice", "Bob", 0>>, <<"Bob", "Alice", -50>>}
\* requested numbers of blocks of a batch, auto_adjust given as true or false
SmallBatchCounts == {1, 2, 3}

\* views.create_transaction, any request body
submit_transaction(p) == \E in \in SubmitInputs : create_transaction_request(p, in)

\* views.batch_mine_blocks, any count and any auto_adjust
batch_mine_any(p) ==
  \E count \in SmallBatchCounts, auto_adjust \in BOOLEAN :
    batch_mine_request(p, count, auto_adjust)

\* submitting, batch mining, the settings and reset, requests served one after
\* the other
BatchNext ==
  \/ Tick
  \/ \E p \in {1} :
       \/ submit_transaction(p)
       \/ initialize_blockchain(p) \/ init_exists(p) \/ init_genesis(p)
       \/ batch_mine_any(p) \/ bm_pending(p) \/ bm_txs(p)
       \/ MineStep(p) \/ AdjustStep(p)
       \/ set_difficulty(p) \/ set_target_time(p) \/ set_adjustment_interval(p)
       \/ manual_adjust_difficulty(p)
       \/ reset_blockchain(p) \/ reset_blocks(p) \/ reset_txs(p) \/ reset_difficulty(p)

BatchSpec == Fresh(MaxBatchRequests) /\ [][BatchNext]_vars

\* changes of the difficulty served at the same time: process 1 prepares a chain
\* (adjustment interval, a batch of blocks) and both processes serve
\* set_difficulty and manual_adjust_difficulty requests, interleaved statement
\* by statement
DifficultyNext ==
  \/ set_adjustment_interval(1)
  \/ batch_mine_blocks(1) \/ bm_pending(1) \/ bm_txs(1) \/ MineStep(1)
  \/ \E p \in Procs :
       \/ set_difficulty(p)
       \/ manual_adjust_difficulty(p)
       \/ AdjustStep(p)

DifficultySpec == Fresh(MaxDifficultyRequests) /\ [][DifficultyNext]_vars

\* ------------------------------------------------------------ queries
\* the stored block with primary key pk
BlockByPk(pk) == CHOOSE b \in Range(blocks) : b.pk = pk

StoredPks == {blocks[i].pk : i \in 1..Len(blocks)}

\* the pks of the transactions serialized into the payload of the block pk
PayloadTxs(pk) == Range(history[pk].snap)

\* Block.objects.all().order_by('index'): every order the database may return
AscOrders ==
  {o \in [1..Len(blocks) -> 1..Len(blocks)] :
     /\ \A i, j \in 1..Len(blocks) : i # j => o[i] # o[j]
     /\ \A i \in 1..Len(blocks) - 1 : blocks[o[i]].index <= blocks[o[i + 1]].index}

RECURSIVE ValidateFrom_link_only(_, _)
\* mutant of ValidateFrom: the hash of a block is not recomputed
ValidateFrom_link_only(chain, i) ==
  IF i > Len(chain) THEN <<TRUE, "valid", -1>>
  ELSE IF i = 1 THEN ValidateFrom_link_only(chain, i + 1)
  ELSE IF chain[i].previous_hash # chain[i - 1].hash
  THEN <<FALSE, "invalid previous hash", chain[i].index>>
  ELSE ValidateFrom_link_only(chain, i + 1)

RECURSIVE ValidateFrom_live_difficulty(_, _)
\* mutant of ValidateFrom: a hash must also meet the difficulty in force now
ValidateFrom_live_difficulty(chain, i) ==
  IF i > Len(chain) THEN <<TRUE, "valid", -1>>
  ELSE IF i = 1 THEN ValidateFrom_live_difficulty(chain, i + 1)
  ELSE IF \/ chain[i].hash # calculate_hash(chain[i])
          \/ HashPrefix(chain[i].hash, DIFFICULTY) # Target(DIFFICULTY)
  THEN <<FALSE, "invalid hash", chain[i].index>>
  ELSE IF chain[i].previous_hash # chain[i - 1].hash
  THEN <<FALSE, "invalid previous hash", chain[i].index>>
  ELSE ValidateFrom_live_difficulty(chain, i + 1)

RECURSIVE ValidateFrom_link_first(_, _)
\* mutant of ValidateFrom: the linkage is compared before the hash
ValidateFrom_link_first(chain, i) ==
  IF i > Len(chain) THEN <<TRUE, "valid", -1>>
  ELSE IF i = 1 THEN ValidateFrom_link_first(chain, i + 1)
  ELSE IF chain[i].previous_hash # chain[i - 1].hash
  THEN <<FALSE, "invalid previous hash", chain[i].index>>
  ELSE IF chain[i].hash # calculate_hash(chain[i])
  THEN <<FALSE, "invalid hash", chain[i].index>>
  ELSE ValidateFrom_link_first(chain, i + 1)

RECURSIVE ValidateFrom(_, _)
\* Blockchain.validate_chain: the loop from position i of the ordered chain
ValidateFrom(chain, i) ==
  IF i > Len(chain) THEN <<TRUE, "valid", -1>>
  ELSE IF i = 1 THEN ValidateFrom(chain, i + 1)
  ELSE IF chain[i].hash # calculate_hash(chain[i])
  THEN <<FALSE, "invalid hash", chain[i].index>>
  ELSE IF chain[i].previous_hash # chain[i - 1].hash
  THEN <<FALSE, "invalid previous hash", chain[i].index>>
  ELSE ValidateFrom(chain, i + 1)

\* Blockchain.validate_chain: the results it may return in this state
validate_chain ==
  {ValidateFrom([i \in 1..Len(blocks) |-> blocks[o[i]]], 1) : o \in AscOrders}

\* Blockchain.validate_chain: the message returned with the result r
ValidateMessage(r) ==
  IF r[1] THEN "Blockchain is valid"
  ELSE "Block " \o ToString(r[3]) \o " has " \o r[2]

\* mutant of validate_chain_request: the audit recomputes the hashes it reads
validate_chain_repairing(p) ==
  /\ Arrive(p)
  /\ \E r \in validate_chain : Finish(p, ValidateMessage(r))
  /\ blocks' = [i \in 1..Len(blocks) |-> [blocks[i] EXCEPT !.hash = calculate_hash(blocks[i])]]
  /\ UNCHANGED <<txs, DIFFICULTY, TARGET_BLOCK_TIME, ADJUSTMENT_INTERVAL, now,
                 nextBlockPk, nextTxPk, history>>

\* views.validate_chain: the request is answered with the result of
\* Blockchain.validate_chain
validate_chain_request(p) ==
  /\ Arrive(p)
  /\ \E r \in validate_chain : Finish(p, ValidateMessage(r))
  /\ UNCHANGED <<blocks, txs, DIFFICULTY, TARGET_BLOCK_TIME, ADJUSTMENT_INTERVAL, now,
                 nextBlockPk, nextTxPk, history>>

\* a payload written over the payload data of a stored block
AlteredData(data) ==
  IF "message" \in DOMAIN data THEN [message |-> "altered"] ELSE [transactions |-> <<>>]

\* a write to the Block table from outside the handlers, between two requests:
\* the data column of the stored block at position i is overwritten, the hash
\* column is left as it is
AlterPayload ==
  /\ pc[1] = "idle"
  /\ budget > 0
  /\ budget' = budget - 1
  /\ \E i \in 1..Len(blocks) :
       /\ blocks[i].data # AlteredData(blocks[i].data)
       /\ blocks' = [blocks EXCEPT ![i].data = AlteredData(blocks[i].data)]
  /\ UNCHANGED <<txs, DIFFICULTY, TARGET_BLOCK_TIME, ADJUSTMENT_INTERVAL, now,
                 nextBlockPk, nextTxPk, pc, loc, resp, history>>

\* a write to the Block table from outside the handlers, between two requests:
\* the data column of the stored block at position i is overwritten and the
\* hash column is set to the digest of the new content
RewriteBlock ==
  /\ pc[1] = "idle"
  /\ budget > 0
  /\ budget' = budget - 1
  /\ \E i \in 1..Len(blocks) :
       LET row == [blocks[i] EXCEPT !.data = AlteredData(blocks[i].data)]
       IN /\ blocks[i].data # AlteredData(blocks[i].data)
          /\ ~HashTaken([row EXCEPT !.hash = calculate_hash(row)])
          /\ blocks' = [blocks EXCEPT ![i] = [row EXCEPT !.hash = calculate_hash(row)]]
  /\ UNCHANGED <<txs, DIFFICULTY, TARGET_BLOCK_TIME, ADJUSTMENT_INTERVAL, now,
                 nextBlockPk, nextTxPk, pc, loc, resp, history>>

\* requested numbers of blocks of a batch in the audited runs
AuditBatchCounts == {3}

\* views.batch_mine_blocks in the audited runs
batch_mine_audited(p) == \E count \in AuditBatchCounts : batch_mine_request(p, count, TRUE)

\* the chain audit: batch mining, difficulty changes, writes to the Block table
\* from outside the handlers, and validate_chain requests, one after the other
AuditNext ==
  \/ Tick
  \/ AlterPayload
  \/ RewriteBlock
  \/ \E p \in {1} :
       \/ batch_mine_audited(p) \/ bm_pending(p) \/ bm_txs(p)
       \/ MineStep(p) \/ adj_latest(p)
       \/ set_difficulty(p)
       \/ validate_chain_request(p)

AuditSpec == Fresh(MaxAuditRequests) /\ [][AuditNext]_vars

\* mutant of SettledTxs: the pending = False filter is dropped
SettledTxs_all == txs

\* views.get_balance: Transaction.objects.filter(pending=False)
SettledTxs == SelectSeq(txs, LAMBDA t : ~t.pending)

RECURSIVE BalanceLoop_mint(_, _, _)
\* mutant of BalanceLoop: an amount sent by SYSTEM is not debited
BalanceLoop_mint(rows, address, balance) ==
  IF rows = <<>> THEN balance
  ELSE LET tx == Head(rows)
           credited == IF tx.receiver = address THEN balance + tx.amount ELSE balance
           debited == IF tx.sender = address /\ address # SYSTEM
                      THEN credited - tx.amount ELSE credited
       IN BalanceLoop_mint(Tail(rows), address, debited)

RECURSIVE BalanceLoop(_, _, _)
\* views.get_balance: the loop over the transactions, from the running balance
BalanceLoop(rows, address, balance) ==
  IF rows = <<>> THEN balance
  ELSE LET tx == Head(rows)
           credited == IF tx.receiver = address THEN balance + tx.amount ELSE balance
           debited == IF tx.sender = address THEN credited - tx.amount ELSE credited
       IN BalanceLoop(Tail(rows), address, debited)

\* views.get_balance: the balance it reports for address
get_balance(address) == BalanceLoop(SettledTxs, address, 0)

\* the addresses that occur in requests
Addresses == Names \cup Miners \cup {SYSTEM}

\* ------------------------------------------------------------------ claims

\* C1: under concurrent mine_pending_transactions calls, no two stored blocks
\* have the same index.  Stated for the blocks add_block mines (index >= 1);
\* two blocks of index 0 are the subject of C10.
C1_NoTwoBlocksAtOneIndex ==
  \A i, j \in 1..Len(blocks) :
    (i # j /\ blocks[i].index >= 1) => blocks[i].index # blocks[j].index

\* C2: under concurrent mine_pending_transactions calls, no transaction is
\* serialized into the payload of two different stored blocks.
C2_NoTxInTwoPayloads ==
  \A b1, b2 \in StoredPks : b1 # b2 => PayloadTxs(b1) \cap PayloadTxs(b2) = {}

\* C3: the transactions a round flips to settled, with a reference to its new
\* block, are the transactions it serialized into that block's payload.
\* Stated for the blocks add_block mines (index >= 1): every transaction that
\* references such a block is in that block's payload.
C3_FlippedAreSnapshotted ==
  \A i \in 1..Len(txs) :
    (txs[i].block \in StoredPks /\ BlockByPk(txs[i].block).index >= 1)
      => txs[i].pk \in PayloadTxs(txs[i].block)

\* C4: a settled transaction stays settled, keeps its block reference and stays
\* stored, in every step of concurrently served requests.
C4_SettledIsFinal ==
  [][\A i \in 1..Len(txs) :
       ~txs[i].pending => (i <= Len(txs') /\ txs'[i] = txs[i])]_vars

\* C4 witness: two transactions settled by two different rounds
C4_Witness ==
  \E i, j \in 1..Len(txs) :
    /\ ~txs[i].pending /\ ~txs[j].pending
    /\ txs[i].block # NULL /\ txs[j].block # NULL
    /\ txs[i].block # txs[j].block

\* C5: the block a round gets back from add_block is a new block that follows
\* the latest block (index one higher, previous_hash the latest block's hash)
\* and carries the snapshot of the pending transactions, also when the store
\* was empty.
C5_RoundAppendsSnapshotBlock ==
  \A p \in Procs :
    pc[p] = "mp_update" =>
      LET nb == loc[p].new_block
      IN /\ "transactions" \in DOMAIN nb.data
         /\ nb.data.transactions = loc[p].tx_data
         /\ nb.index >= 1
         /\ \E i \in 1..Len(blocks) :
              blocks[i].index = nb.index - 1 /\ blocks[i].hash = nb.previous_hash

\* C6: after any sequence of requests served one after the other, every
\* non-genesis block's hash is the digest of its fields, its previous_hash is
\* the hash of the block one index below, and validate_chain returns valid.
C6_ChainValid ==
  /\ validate_chain = {<<TRUE, "valid", -1>>}
  /\ \A i \in 1..Len(blocks) :
       blocks[i].index >= 1 =>
         /\ blocks[i].hash = calculate_hash(blocks[i])
         /\ \E j \in 1..Len(blocks) :
              /\ blocks[j].index = blocks[i].index - 1
              /\ blocks[i].previous_hash = blocks[j].hash

\* C6 witness: a chain of three blocks, inspected after the difficulty changed
C6_Witness == Len(blocks) >= 3 /\ DIFFICULTY # DEFAULT_DIFFICULTY

\* the difficulty that was read when the block with primary key pk was mined
MinedAt(pk) == history[pk].difficulty

\* C7 as stated: the hash of every mined block starts with exactly d zero
\* characters, d the difficulty read when its mining began.
C7_ExactlyDifficultyZeros ==
  \A i \in 1..Len(blocks) :
    blocks[i].index >= 1 => LeadingZeros(blocks[i].hash) = MinedAt(blocks[i].pk)

\* C7 amended: the first d characters of the hash of every mined block are
\* zeros (at least d leading zeros), d the difficulty read when its mining
\* began, whatever the difficulty is now.
C7_AtLeastDifficultyZeros ==
  \A i \in 1..Len(blocks) :
    blocks[i].index >= 1 =>
      /\ MinedAt(blocks[i].pk) >= MIN_DIFFICULTY
      /\ HashPrefix(blocks[i].hash, MinedAt(blocks[i].pk)) = Target(MinedAt(blocks[i].pk))

\* C7 witness: a stored mined block, and the difficulty has changed since
C7_Witness ==
  \E i \in 1..Len(blocks) :
    blocks[i].index >= 1 /\ MinedAt(blocks[i].pk) # DIFFICULTY

\* C8: after any sequence of requests served one after the other, the stored
\* blocks have the indices 0, 1, ..., n-1 in the order they were appended.
C8_IndicesContiguous ==
  \A i \in 1..Len(blocks) : blocks[i].index = i - 1

\* C8 witness: four blocks appended one after the other
C8_Witness == Len(blocks) >= 4

\* the stored blocks of index 0
GenesisRows == {i \in 1..Len(blocks) : blocks[i].index = 0}

\* C9: initialize_blockchain on a store that holds a block answers "already
\* initialized" and changes neither the chain nor the transactions, and the
\* store never holds two blocks of index 0 when requests are served one after
\* the other.
C9_InitializeIdempotent ==
  /\ [](Cardinality(GenesisRows) <= 1)
  /\ [][(pc[1] = "init_exists" /\ pc'[1] # "init_exists" /\ BlocksExist)
          => /\ resp' = "Blockchain already initialized"
             /\ blocks' = blocks
             /\ txs' = txs
             /\ DIFFICULTY' = DIFFICULTY]_vars

\* C9 witness: a second initialize request was answered on an initialized store
C9_Witness ==
  /\ resp = "Blockchain already initialized"
  /\ Cardinality(GenesisRows) = 1
  /\ now > blocks[1].timestamp

\* C10: whatever the interleaving of initialize_blockchain, quick_setup and
\* mine_pending_transactions on an empty store, at most one block of index 0
\* is stored.
C10_AtMostOneGenesis ==
  \A i, j \in 1..Len(blocks) :
    (blocks[i].index = 0 /\ blocks[j].index = 0) => i = j

\* C11: creating the genesis block on an empty store gives a chain of length 1;
\* a block of index 0 has previous_hash '0', nonce 0, the marker payload and a
\* hash equal to the digest of its fields, whatever the difficulty (it is never
\* mined).  Requests are served one after the other.
C11_GenesisShape ==
  /\ [](\A i \in 1..Len(blocks) :
          blocks[i].index = 0 =>
            /\ blocks[i].previous_hash = ZeroHash
            /\ blocks[i].nonce = 0
            /\ blocks[i].data = GenesisData
            /\ blocks[i].hash = calculate_hash(blocks[i]))
  /\ [][(blocks = <<>> /\ blocks' # <<>>)
          => (Len(blocks') = 1 /\ blocks'[1].index = 0)]_vars

\* C11 witness: initialize_blockchain has just created the genesis block after
\* the difficulty was changed, and its hash is not a mined one
C11_Witness ==
  /\ Len(blocks) = 1
  /\ blocks[1].index = 0
  /\ DIFFICULTY # DEFAULT_DIFFICULTY
  /\ resp = "Blockchain initialized with genesis block"
  /\ HashPrefix(blocks[1].hash, DEFAULT_DIFFICULTY) # Target(DEFAULT_DIFFICULTY)

\* sum of the amounts of the settled transactions received by / sent from a
SettledReceived(a) ==
  SeqSum([i \in 1..Len(txs) |->
            IF ~txs[i].pending /\ txs[i].receiver = a THEN txs[i].amount ELSE 0])
SettledSent(a) ==
  SeqSum([i \in 1..Len(txs) |->
            IF ~txs[i].pending /\ txs[i].sender = a THEN txs[i].amount ELSE 0])

\* C12: the balance of every address is the sum of the settled amounts it
\* received minus the sum of the settled amounts it sent, and a step that adds
\* a pending transaction leaves every balance unchanged.
C12_BalanceLaw ==
  /\ [](\A a \in Addresses : get_balance(a) = SettledReceived(a) - SettledSent(a))
  /\ [][(Len(txs') = Len(txs) + 1 /\ txs'[Len(txs')].pending
           /\ SubSeq(txs', 1, Len(txs)) = txs)
          => \A a \in Addresses : get_balance(a)' = get_balance(a)]_vars

\* C12 witness: an address with a settled transaction and a non-zero balance
\* also has a pending transaction
C12_Witness ==
  \E i, j \in 1..Len(txs) :
    /\ ~txs[i].pending /\ txs[j].pending
    /\ txs[i].receiver = txs[j].receiver
    /\ get_balance(txs[i].receiver) # 0

\* C13: in every state reached by set_difficulty requests (any argument),
\* retarget evaluations (after a mining round or manual) and resets, the
\* difficulty is an integer from 1 to 10.
C13_DifficultyInRange == DIFFICULTY \in MIN_DIFFICULTY..MAX_DIFFICULTY

\* C13 witness: a retarget has just stepped up from the highest difficulty
C13_Witness ==
  /\ pc[1] = "adj_info"
  /\ loc[1].dir = 1
  /\ loc[1].old = MAX_DIFFICULTY
  /\ DIFFICULTY = MAX_DIFFICULTY

\* C14: a set_difficulty request with an argument below 1 or above 10 fails
\* and leaves the difficulty unchanged; with an argument from 1 to 10 it
\* succeeds and the difficulty is the argument afterwards.
C14_SetDifficulty ==
  [][\A d \in DifficultyInputs :
       set_difficulty_request(1, d) =>
         IF d < 1 \/ d > 10
         THEN /\ DIFFICULTY' = DIFFICULTY
              /\ resp' \in {"error 400: difficulty", "Difficulty must be between 1 and 10"}
         ELSE /\ DIFFICULTY' = d
              /\ resp' = "Difficulty set to " \o ToString(d)]_vars

\* C14 witness: the highest difficulty was set, then a request for a difficulty
\* above the range was refused
C14_Witness ==
  /\ DIFFICULTY = MAX_DIFFICULTY
  /\ resp = "Difficulty must be between 1 and 10"

\* the statements of adjust_difficulty
AdjustPcs == {"adj_latest", "adj_blocks", "adj_read", "adj_write", "adj_info"}

\* the highest index stored, and the time the last n stored blocks took
\* (requests served one after the other store the blocks in index order)
LatestIndex == blocks[Len(blocks)].index
WindowTime(n) == blocks[Len(blocks)].timestamp - blocks[Len(blocks) + 1 - n].timestamp
ExpectedTime == TARGET_BLOCK_TIME * (ADJUSTMENT_INTERVAL - 1)

\* C15: a retarget evaluation changes the difficulty only when the latest
\* index n has n >= adjustment_interval and (n + 1) mod adjustment_interval = 0
\* and actual / expected is below 0.5 or above 2.0; in every other case the
\* difficulty is the same after the evaluation.
C15_RetargetOnlyAtBoundary ==
  [][(pc[1] \in AdjustPcs /\ DIFFICULTY' # DIFFICULTY)
       => /\ blocks # <<>>
          /\ LatestIndex >= ADJUSTMENT_INTERVAL
          /\ (LatestIndex + 1) % ADJUSTMENT_INTERVAL = 0
          /\ \/ 2 * WindowTime(ADJUSTMENT_INTERVAL) < ExpectedTime
             \/ WindowTime(ADJUSTMENT_INTERVAL) > 2 * ExpectedTime]_vars

\* C15 witness: an evaluation at an adjustment point has lowered the difficulty
C15_Witness ==
  /\ pc[1] = "adj_info"
  /\ loc[1].dir = -1
  /\ DIFFICULTY = loc[1].old - 1

\* actual / expected < 0.5 and actual / expected > 2.0, over the most recent
\* adjustment_interval blocks
RatioBelowHalf == 2 * WindowTime(ADJUSTMENT_INTERVAL) < ExpectedTime
RatioAboveTwo == WindowTime(ADJUSTMENT_INTERVAL) > 2 * ExpectedTime

\* C16: at a retarget boundary the evaluation goes on to change the difficulty
\* exactly when actual / expected is strictly below 0.5 or strictly above 2.0;
\* the difficulty then becomes min(10, old + 1), respectively max(1, old - 1);
\* with 0.5 <= ratio <= 2.0 the difficulty is unchanged.
C16_RetargetStep ==
  [][/\ (pc[1] = "adj_blocks" /\ pc'[1] # "adj_blocks" /\ ExpectedTime # 0)
          => IF RatioBelowHalf \/ RatioAboveTwo
             THEN pc'[1] = "adj_read"
             ELSE pc'[1] \notin AdjustPcs /\ DIFFICULTY' = DIFFICULTY
     /\ (pc[1] = "adj_write" /\ pc'[1] # "adj_write")
          => /\ RatioBelowHalf \/ RatioAboveTwo
             /\ DIFFICULTY' =
                  IF RatioBelowHalf
                  THEN (IF DIFFICULTY + 1 > 10 THEN 10 ELSE DIFFICULTY + 1)
                  ELSE (IF DIFFICULTY - 1 < 1 THEN 1 ELSE DIFFICULTY - 1)
     /\ (pc[1] \in AdjustPcs \ {"adj_write"}) => DIFFICULTY' = DIFFICULTY]_vars

\* C16 witness: a batch of rounds ended with an evaluation at a boundary where
\* the ratio is exactly 0.5, and the difficulty is unchanged
C16_Witness ==
  /\ resp = BatchMessage(4)
  /\ DIFFICULTY = DEFAULT_DIFFICULTY
  /\ blocks # <<>>
  /\ LatestIndex >= ADJUSTMENT_INTERVAL
  /\ (LatestIndex + 1) % ADJUSTMENT_INTERVAL = 0
  /\ ExpectedTime > 0
  /\ 2 * WindowTime(ADJUSTMENT_INTERVAL) = ExpectedTime

\* the statements of mine_pending_transactions and add_block
MinePcs == {"mp_exists", "mp_snapshot", "ab_latest", "ab_genesis", "ab_mine", "ab_save",
            "mp_update", "mp_reward"}

\* C17: a mining round that finds no pending transaction ends at once: it
\* returns no block and no retarget outcome, raises no error, and leaves the
\* blocks, the transactions and the difficulty settings unchanged.
C17_NoPendingIsNoOp ==
  [][\A p \in Procs :
       (pc[p] = "mp_exists" /\ pc'[p] # "mp_exists" /\ PendingIdx(txs) = <<>>)
         => /\ pc'[p] = "idle"
            /\ resp' # "error 500"
            /\ resp' # "Block mined successfully"
            /\ blocks' = blocks
            /\ txs' = txs
            /\ history' = history
            /\ DIFFICULTY' = DIFFICULTY
            /\ TARGET_BLOCK_TIME' = TARGET_BLOCK_TIME
            /\ ADJUSTMENT_INTERVAL' = ADJUSTMENT_INTERVAL]_vars

\* C17 witness: a mining request on an initialized store without pending
\* transactions has ended
C17_Witness ==
  /\ resp = "No block mined"
  /\ blocks # <<>>
  /\ PendingIdx(txs) = <<>>

\* C18: the mine endpoint, invoked while no transaction is pending, answers
\* with the 'no pending transactions' message.
C18_NoPendingMessage ==
  [][\A p \in Procs :
       (pc[p] = "mp_exists" /\ loc[p].op = "mine_block" /\ pc'[p] = "idle"
          /\ PendingIdx(txs) = <<>>)
         => resp' = "No pending transactions to mine"]_vars

\* the stored transactions with sender SYSTEM, and the stored blocks a mining
\* round returned (reset deletes both)
SystemTxs == {i \in 1..Len(txs) : txs[i].sender = SYSTEM}
RoundBlocks == {i \in 1..Len(blocks) : history[blocks[i].pk].round}

\* C19: a mining round that returns a block creates exactly one transaction,
\* pending, from SYSTEM to the miner, of the reward amount; a round without
\* pending transactions creates none; so between requests the number of
\* SYSTEM transactions is the number of rounds that returned a block since the
\* last reset.
C19_OneRewardPerRound ==
  /\ [](pc[1] = "idle" => Cardinality(SystemTxs) = Cardinality(RoundBlocks))
  /\ [][(pc[1] = "mp_reward" /\ pc'[1] # "mp_reward")
          => /\ Len(txs') = Len(txs) + 1
             /\ SubSeq(txs', 1, Len(txs)) = txs
             /\ txs'[Len(txs')].pending
             /\ txs'[Len(txs')].block = NULL
             /\ txs'[Len(txs')].sender = SYSTEM
             /\ txs'[Len(txs')].receiver = loc[1].miner
             /\ txs'[Len(txs')].amount = 10]_vars

\* the stored transaction with primary key pk, if any
TxRows(pk) == {i \in 1..Len(txs) : txs[i].pk = pk}

\* C20: the reward a mining round mints is not settled by that round and is not
\* in that round's block; it is pending until a later round settles it into
\* the block of that later round.  Requests are served one after the other.
C20_RewardMatures ==
  /\ [](\A b \in StoredPks : \A i \in TxRows(history[b].reward) :
          /\ txs[i].block # b
          /\ txs[i].pk \notin PayloadTxs(b)
          /\ \/ txs[i].pending /\ txs[i].block = NULL
             \/ /\ ~txs[i].pending
                /\ txs[i].block \in StoredPks
                /\ txs[i].block > b
                /\ history[txs[i].block].round
                /\ txs[i].pk \in PayloadTxs(txs[i].block))
  /\ [][(pc[1] = "mp_reward" /\ pc'[1] # "mp_reward")
          => (txs'[Len(txs')].pending /\ txs'[Len(txs')].block = NULL)]_vars

\* C20 witness: the reward of one round was settled by a later round, whose
\* own reward is pending
C20_Witness ==
  \E b, c \in StoredPks :
    /\ b < c
    /\ \E i \in TxRows(history[b].reward) : ~txs[i].pending /\ txs[i].block = c
    /\ \E j \in TxRows(history[c].reward) : txs[j].pending

\* C21: a batch-mine request with count N, served on its own, reports exactly
\* N blocks mined and ends with N more stored blocks than it began with,
\* whether no, one or several transactions were pending and whether or not the
\* store held a block when it arrived.
C21_BatchMinesCount ==
  [][(pc[1] \in MinePcs \cup AdjustPcs /\ loc[1].op = "batch_mine_blocks" /\ pc'[1] = "idle")
       => /\ resp' = BatchMessage(loc[1].count)
          /\ Len(blocks') = loc[1].base + loc[1].count]_vars

\* C21 witness: a batch of three blocks has ended on a store that was empty
\* when it arrived, with two transactions pending
C21_Witness ==
  /\ resp = BatchMessage(3)
  /\ Len(blocks) = 3
  /\ blocks[1].index = 0
  /\ \E i, j \in 1..Len(txs) : i # j /\ txs[i].block = 1 /\ txs[j].block = 1

\* position i of the chain (i >= 2) fails a check of validate_chain; requests
\* served one after the other store the blocks in index order
HashMismatch(i) == blocks[i].hash # calculate_hash(blocks[i])
LinkMismatch(i) == blocks[i].previous_hash # blocks[i - 1].hash
FailsCheck(i) == HashMismatch(i) \/ LinkMismatch(i)
FailingPositions == {i \in 2..Len(blocks) : FailsCheck(i)}

\* C22 as stated: for any stored block whose payload was altered without
\* recomputing its hash (no block before it failing a check), validate_chain
\* returns the invalid-hash result naming that block's index.
C22_AlteredBlockIsNamed ==
  \A i \in 1..Len(blocks) :
    (HashMismatch(i) /\ \A j \in 2..(i - 1) : ~FailsCheck(j))
      => validate_chain = {<<FALSE, "invalid hash", blocks[i].index>>}

\* C22 amended: for any stored block other than the genesis block whose payload
\* was altered without recomputing its hash, the chain is reported invalid, and
\* validate_chain returns the invalid-hash result naming that block's index
\* when no block before it fails a check; a genesis block altered in that way
\* alone leaves the result valid.
C22_AlteredNonGenesisIsNamed ==
  /\ \A i \in 2..Len(blocks) :
       HashMismatch(i) =>
         /\ \A r \in validate_chain : ~r[1]
         /\ (\A j \in 2..(i - 1) : ~FailsCheck(j))
              => validate_chain = {<<FALSE, "invalid hash", blocks[i].index>>}
  /\ (FailingPositions = {}) => validate_chain = {<<TRUE, "valid", -1>>}

\* C22 witness: a validate request has named the altered block at index 2, the
\* blocks at index 0 and 1 being intact
C22_Witness ==
  /\ Len(blocks) = 3
  /\ ~HashMismatch(1) /\ ~FailsCheck(2) /\ HashMismatch(3) /\ ~LinkMismatch(3)
  /\ resp = "Block 2 has invalid hash"

\* C23: a validate_chain request leaves every block, every transaction and the
\* difficulty settings as they were, whatever result it returns.
C23_ValidateReadOnly ==
  [][validate_chain_request(1)
       => /\ blocks' = blocks
          /\ txs' = txs
          /\ DIFFICULTY' = DIFFICULTY
          /\ TARGET_BLOCK_TIME' = TARGET_BLOCK_TIME
          /\ ADJUSTMENT_INTERVAL' = ADJUSTMENT_INTERVAL
          /\ validate_chain' = validate_chain]_vars

\* C23 witness: a validate request has reported a broken linkage, and the
\* block it named still fails the check
C23_Witness ==
  /\ Len(blocks) = 3
  /\ resp = "Block 1 has invalid previous hash"
  /\ ~HashMismatch(2) /\ LinkMismatch(2)

\* C27: the result of validate_chain is a function of the stored blocks alone:
\* a step that leaves the blocks unchanged, a change of the difficulty
\* included, leaves the result unchanged.
C27_ValidateIgnoresDifficulty ==
  [][blocks' = blocks => validate_chain' = validate_chain]_vars

\* C27 witness: the chain was reported valid while it holds a mined block whose
\* hash does not meet the difficulty now in force
C27_Witness ==
  /\ resp = "Blockchain is valid"
  /\ \E i \in 2..Len(blocks) :
       /\ MinedAt(blocks[i].pk) < DIFFICULTY
       /\ HashPrefix(blocks[i].hash, DIFFICULTY) # Target(DIFFICULTY)

\* the lowest failing position of the chain
FirstFailing == CHOOSE m \in FailingPositions : \A n \in FailingPositions : m <= n

\* C30: validate_chain reports the lowest position from 1 on that fails a
\* check, and nothing else: an invalid hash if the hash of that block differs
\* from its digest (even if its linkage is broken as well), an invalid previous
\* hash if only its linkage is broken; the block at position 0 is not checked.
C30_FirstFailureOnly ==
  validate_chain =
    IF FailingPositions = {} THEN {<<TRUE, "valid", -1>>}
    ELSE IF HashMismatch(FirstFailing)
    THEN {<<FALSE, "invalid hash", blocks[FirstFailing].index>>}
    ELSE {<<FALSE, "invalid previous hash", blocks[FirstFailing].index>>}

\* C30 witness: the block at position 0 was rewritten, the block at position 1
\* has a wrong hash and a broken linkage, the block at position 2 has a wrong
\* hash, and a validate request has named the invalid hash of block 1
C30_Witness ==
  /\ Len(blocks) = 3
  /\ blocks[1].data # GenesisData
  /\ HashMismatch(2) /\ LinkMismatch(2)
  /\ HashMismatch(3)
  /\ resp = "Block 1 has invalid hash"

\* C24: a reset request without a true confirmation flag is refused and leaves
\* the blocks, the transactions and the difficulty unchanged; a reset request
\* with confirm = true goes on, and when it ends no block and no transaction,
\* pending or settled, is stored and the difficulty is 4.
C24_Reset ==
  [][/\ reset_request(1, FALSE)
          => /\ resp' = "error 400: confirm"
             /\ blocks' = blocks
             /\ txs' = txs
             /\ DIFFICULTY' = DIFFICULTY
     /\ reset_request(1, TRUE) => pc'[1] = "reset_blocks"
     /\ (loc[1].op = "reset_blockchain" /\ pc'[1] = "idle")
          => /\ resp' = "Blockchain reset successfully"
             /\ blocks' = <<>>
             /\ txs' = <<>>
             /\ DIFFICULTY' = 4]_vars

\* C24 witness: a confirmed reset has ended after a block was mined at a
\* difficulty other than 4 and a reward was minted
C24_Witness ==
  /\ resp = "Blockchain reset successfully"
  /\ blocks = <<>> /\ txs = <<>>
  /\ DIFFICULTY = 4
  /\ \E pk \in DOMAIN history :
       history[pk].difficulty \notin {0, 4} /\ history[pk].reward # NULL

\* the step is the assignment of a retarget evaluation that was asked for: a
\* manual one, or the one that ends a mining round with auto_adjust enabled
RetargetWrite ==
  /\ pc[1] = "adj_write"
  /\ loc[1].op = "manual_adjust_difficulty" \/ loc[1].auto

\* the step is a set_difficulty request
SetDifficultyStep == \E d \in DifficultyInputs : set_difficulty_request(1, d)

\* C25 as stated: the difficulty changes only in a retarget evaluation or in a
\* set_difficulty request; every other step, those of reset included, leaves it
\* unchanged.
C25_OnlyRetargetOrOverride ==
  [][DIFFICULTY' # DIFFICULTY => (RetargetWrite \/ SetDifficultyStep)]_vars

\* C25 amended: the difficulty changes only in a retarget evaluation, in a
\* set_difficulty request, or at the end of a confirmed reset, which sets it to
\* 4; every other step (submit, genesis creation, set target time, set
\* adjustment interval, a refused reset, and the mining rounds of a batch with
\* auto_adjust disabled) leaves it unchanged.
C25_OnlyRetargetOverrideOrReset ==
  [][DIFFICULTY' # DIFFICULTY
       => \/ RetargetWrite
          \/ SetDifficultyStep
          \/ pc[1] = "reset_difficulty" /\ DIFFICULTY' = DEFAULT_DIFFICULTY]_vars

\* C25 witness: a batch with auto_adjust disabled has ended at a retarget
\* boundary where the blocks were mined too fast, and the difficulty is as it was
C25_Witness ==
  /\ resp = BatchMessage(3)
  /\ Len(blocks) = 4
  /\ ADJUSTMENT_INTERVAL = 2
  /\ RatioBelowHalf
  /\ DIFFICULTY = DEFAULT_DIFFICULTY

\* C26: changes of the difficulty are serialized: whatever the interleaving of
\* retarget evaluations and set_difficulty requests served at the same time,
\* every adjustment a retarget evaluation reports is one a serial execution
\* reports, its new difficulty being its old difficulty changed by the one step
\* it applied.
C26_DifficultySerialized ==
  [][\A p \in Procs :
       (pc[p] = "adj_info" /\ pc'[p] # "adj_info")
         => DIFFICULTY = Stepped(loc[p].old, loc[p].dir)]_vars

\* the statements that save a Block row, and the index of the row p saves
SavePcs == {"ab_save", "ab_genesis", "init_genesis"}
SavedIndex(p) == IF pc[p] = "ab_save" THEN loc[p].new_block.index ELSE 0

\* C28: saving a block whose index is already stored fails and leaves the Block
\* table unchanged.
C28_DuplicateIndexRefused ==
  [][\A p \in Procs :
       (/\ pc[p] \in SavePcs /\ pc'[p] # pc[p]
        /\ \E i \in 1..Len(blocks) : blocks[i].index = SavedIndex(p))
         => /\ blocks' = blocks
            /\ pc'[p] = "idle"
            /\ resp' = "error 500"]_vars

\* C29: a submitted transaction with an amount of zero or below is refused with
\* a validation error and nothing is stored; a transaction the submit operation
\* stores has the submitted amount, which is strictly positive.
C29_AmountPositive ==
  [][\A in \in SubmitInputs :
       create_transaction_request(1, in)
         => IF in[3] <= 0
            THEN /\ resp' = "error 400: amount"
                 /\ txs' = txs
            ELSE /\ txs' = Append(txs, txs'[Len(txs')])
                 /\ txs'[Len(txs')].amount = in[3]
                 /\ txs'[Len(txs')].amount > 0]_vars

\* C29 witness: a transaction of amount 50 is stored and a later submission
\* was refused for its amount
C29_Witness ==
  /\ resp = "error 400: amount"
  /\ Len(txs) = 1
  /\ txs[1].amount = 50

\* C31: mining the candidate block of add_block changes only its nonce and its
\* hash: index, timestamp, payload and previous_hash are those of the candidate,
\* the nonce is not below the candidate's, and the hash returned is the digest
\* of the final fields and starts with the target of the difficulty in force.
C31_MineTouchesNonceAndHash ==
  [][(pc[1] = "ab_mine" /\ pc'[1] = "ab_save")
       => LET c == Candidate(loc[1].latest, [transactions |-> loc[1].tx_data])
              m == loc'[1].new_block
          IN /\ m.index = c.index
             /\ m.timestamp = c.timestamp
             /\ m.data = c.data
             /\ m.previous_hash = c.previous_hash
             /\ m.pk = c.pk
             /\ m.nonce >= c.nonce
             /\ m.hash = calculate_hash(m)
             /\ HashPrefix(m.hash, DIFFICULTY) = Target(DIFFICULTY)]_vars

\* C31 witness: a block was mined at the highest difficulty with a nonce the
\* loop had to raise
C31_Witness ==
  /\ pc[1] = "ab_save"
  /\ loc[1].used = MAX_DIFFICULTY
  /\ loc[1].new_block.nonce > 0
  /\ loc[1].new_block.hash # calculate_hash([loc[1].new_block EXCEPT !.nonce = 0])

\* C32: the chain is append-only: every step of a request other than the
\* deletion of a confirmed reset leaves every stored block stored with the same
\* fields, in the same place; the chain before the step is a prefix of the
\* chain after it.
C32_AppendOnly ==
  [][pc[1] # "reset_blocks"
       => /\ Len(blocks') >= Len(blocks)
          /\ SubSeq(blocks', 1, Len(blocks)) = blocks]_vars

\* C32 witness: a block has been appended to a chain created after an earlier
\* reset
C32_Witness ==
  /\ Len(blocks) = 2
  /\ blocks[1].pk > 1
  /\ blocks[2].index = 1

\* ------------------------------------------------- rounds keep occurring
\* requests of the run in which mining rounds keep occurring
MaxLiveRequests == 5

\* views.create_transaction, while a mining request is still to come
submit_before_round(p) ==
  /\ budget > 1
  /\ submit_transaction(p)

\* submitting and mining, requests served one after the other
LiveNext ==
  \/ Tick
  \/ \E p \in {1} :
       \/ submit_before_round(p)
       \/ view_mine_block(p) \/ MineStep(p) \/ adj_latest(p)

\* the statements of a mining request
LivePcs == {"mp_exists", "mp_snapshot", "ab_latest", "ab_genesis", "ab_mine", "ab_save",
            "mp_update", "mp_reward", "adj_latest"}

\* the request p serves moves on to its next statement or to its response;
\* no statement of a mining request blocks, so this is enabled exactly when
\* MineStep(p) \/ adj_latest(p) is, and the steps of LiveNext that satisfy it are
\* the steps of MineStep(p) \/ adj_latest(p)
RequestRuns(p) ==
  /\ pc[p] \in LivePcs
  /\ \E l \in (LivePcs \cup {"idle"}) \ {pc[p]} : pc' = [pc EXCEPT ![p] = l]

\* the server runs a request it serves to its response, and a mining request
\* arrives whenever the server stays idle
LiveSpec ==
  /\ Fresh(MaxLiveRequests)
  /\ [][LiveNext]_vars
  /\ WF_pc(RequestRuns(1))
  /\ WF_vars(view_mine_block(1))

\* the rows of the table whose primary key is in the snapshot
SnapshotRows(table, snap) ==
  {k \in 1..Len(table) : \E i \in 1..Len(snap) : table[k].pk = snap[i]}

\* C33: in sequential execution, when a round saves its reward every
\* transaction that was pending when the round started is settled and the
\* pending set is exactly the reward just minted; and, mining rounds occurring
\* again and again, every submitted transaction that is pending is eventually
\* settled.
C33_RoundSettlesAll ==
  /\ [][(pc[1] = "mp_reward" /\ pc'[1] # "mp_reward")
          => /\ \A k \in SnapshotRows(txs', loc[1].snap) : ~txs'[k].pending
             /\ PendingIdx(txs') = <<Len(txs')>>
             /\ txs'[Len(txs')].sender = SYSTEM
             /\ txs'[Len(txs')].pk = nextTxPk]_vars
  /\ \A k \in 1..MaxLiveRequests :
       (k <= Len(txs) /\ txs[k].sender \in Names /\ txs[k].pending)
         ~> (k <= Len(txs) /\ txs[k].sender \in Names /\ ~txs[k].pending)

\* C33 witness: a round that started with two submitted transactions pending
\* has returned; both are settled and only its reward is pending
C33_Witness ==
  /\ pc[1] = "idle"
  /\ Len(txs) = 3
  /\ txs[1].sender \in Names /\ ~txs[1].pending
  /\ txs[2].sender \in Names /\ ~txs[2].pending
  /\ txs[3].sender = SYSTEM /\ txs[3].pending

\* C34: a retarget evaluation that reaches the ratio at a boundary with an
\* expected time of zero (adjustment interval 1) ends there: nothing is
\* divided, no error is raised, the difficulty is left unchanged, and a manual
\* trigger answers "Invalid time calculation".
C34_ZeroExpectedIsHarmless ==
  [][(/\ pc[1] = "adj_blocks" /\ pc'[1] # "adj_blocks"
      /\ ExpectedTime = 0
      /\ Len(blocks) >= ADJUSTMENT_INTERVAL)
       => /\ pc'[1] \notin AdjustPcs
          /\ DIFFICULTY' = DIFFICULTY
          /\ resp' # "error 500"
          /\ loc[1].op = "manual_adjust_difficulty" => resp' = "Invalid time calculation"]_vars

\* C34 witness: with the adjustment interval set to 1 and blocks stored, a
\* manual trigger has been answered "Invalid time calculation"
C34_Witness ==
  /\ pc[1] = "idle"
  /\ ADJUSTMENT_INTERVAL = 1
  /\ Len(blocks) >= 2
  /\ resp = "Invalid time calculation"

\* ------------------------------------------------------ mining statistics
\* requests of the run with mining statistics
MaxStatsRequests == 4

\* get_mining_stats: (count // ADJUSTMENT_INTERVAL + 1) * ADJUSTMENT_INTERVAL
NextAdjustmentAtBlock ==
  (Len(blocks) \div ADJUSTMENT_INTERVAL + 1) * ADJUSTMENT_INTERVAL

\* the response of get_mining_stats: the message when fewer than two blocks
\* are stored, else the statistics, of which next_adjustment_at_block is kept
StatsMessage ==
  IF Len(blocks) < 2 THEN "Not enough blocks for statistics"
  ELSE "next_adjustment_at_block " \o ToString(NextAdjustmentAtBlock)

\* views.get_mining_stats
get_mining_stats(p) ==
  /\ Arrive(p)
  /\ Finish(p, StatsMessage)
  /\ UNCHANGED <<blocks, txs, DIFFICULTY, TARGET_BLOCK_TIME, ADJUSTMENT_INTERVAL, now,
                 nextBlockPk, nextTxPk, history>>

\* adjust_difficulty with c blocks stored (latest index c - 1): both checks
\* that gate the retarget pass
PassesGates(c) ==
  /\ c - 1 >= ADJUSTMENT_INTERVAL
  /\ c % ADJUSTMENT_INTERVAL = 0

\* batch mining, the adjustment interval, the retarget, its manual trigger and
\* the statistics, requests served one after the other
StatsNext ==
  \E p \in {1} :
    \/ set_adjustment_interval(p)
    \/ batch_mine_blocks(p) \/ bm_pending(p) \/ bm_txs(p)
    \/ MineStep(p) \/ AdjustStep(p)
    \/ manual_adjust_difficulty(p)
    \/ get_mining_stats(p)

StatsSpec == Fresh(MaxStatsRequests) /\ [][StatsNext]_vars

\* C35: when get_mining_stats reports next_adjustment_at_block, the number is
\* the smallest total block count above the current count at which a retarget
\* evaluation passes both gating checks (latest index >= adjustment interval,
\* and latest index + 1 a multiple of the adjustment interval).
C35_NextBoundaryIsNextRetarget ==
  [][(get_mining_stats(1) /\ Len(blocks) >= 2)
       => /\ NextAdjustmentAtBlock > Len(blocks)
          /\ PassesGates(NextAdjustmentAtBlock)
          /\ \A c \in (Len(blocks) + 1)..(NextAdjustmentAtBlock - 1) : ~PassesGates(c)]_vars

\* ----------------------------------------------------------- conservation
\* the addresses that occur in a stored transaction, as sender or as receiver
TxAddresses ==
  {txs[i].sender : i \in 1..Len(txs)} \cup {txs[i].receiver : i \in 1..Len(txs)}

RECURSIVE SumOfBalances(_)
\* the sum of the balances get_balance reports for the addresses of S
SumOfBalances(S) ==
  IF S = {} THEN 0
  ELSE LET a == CHOOSE x \in S : TRUE
       IN get_balance(a) + SumOfBalances(S \ {a})

\* C36: conservation: in every reachable state the balances of all addresses
\* that occur in a transaction, SYSTEM included, sum to zero.
C36_Conservation == SumOfBalances(TxAddresses) = 0

\* C36 witness: a reward is settled; SYSTEM has a negative balance and a miner
\* a positive one
C36_Witness ==
  /\ get_balance(SYSTEM) < 0
  /\ \E m \in Miners : get_balance(m) > 0
  /\ \E i \in 1..Len(txs) : txs[i].sender \in Names /\ ~txs[i].pending

\* C37: a transaction is pending exactly when it has no block reference, and
\* every settled transaction references a stored block whose payload contains
\* the summary (to_dict) of that transaction.
C37_SettledIsInItsBlock ==
  \A i \in 1..Len(txs) :
    /\ txs[i].pending <=> txs[i].block = NULL
    /\ ~txs[i].pending
         => \E j \in 1..Len(blocks) :
              /\ blocks[j].pk = txs[i].block
              /\ "transactions" \in DOMAIN blocks[j].data
              /\ \E k \in 1..Len(blocks[j].data.transactions) :
                   blocks[j].data.transactions[k] = to_dict(txs[i])

\* C38: a retarget evaluation reports an adjustment (adjusted, old_difficulty,
\* new_difficulty) only when the difficulty changed: the reported new
\* difficulty differs from the reported old difficulty by exactly 1, at the cap
\* 10 and at the floor 1 too.
C38_ReportedStepIsOne ==
  [][(pc[1] = "adj_info" /\ pc'[1] # "adj_info")
       => (DIFFICULTY - loc[1].old) \in {1, -1}]_vars

\* the answers of a manual trigger that stepped the difficulty
SteppedMessages == {"Difficulty increased (blocks mined too fast)",
                    "Difficulty decreased (blocks mined too slow)"}

\* C39: at most one difficulty step per retarget boundary: a manual trigger
\* that follows a manual trigger which stepped the difficulty, so that the
\* latest block and the configuration are unchanged between the two, does not
\* change the difficulty again.
C39_OneStepPerBoundary ==
  [][(/\ pc[1] = "adj_write"
      /\ loc[1].op = "manual_adjust_difficulty"
      /\ resp \in SteppedMessages)
       => DIFFICULTY' = DIFFICULTY]_vars

====
